---- MODULE Spec2Model ----
(***************************************************************************)
(* Chunk streaming engine of free-draw (ChunkedCanvas in                   *)
(* src/renderer/kanva-render/renderer.ts): chunk registry, load queue,     *)
(* in-flight loads, chunk data cache and render queue, driven by           *)
(* updateViewport, the frame callback, fetch completions and the render    *)
(* timer.                                                                  *)
(***************************************************************************)
EXTENDS Integers, Sequences, FiniteSets, TLC

VARIABLES
    chunks,          \* Map<string, ChunkMetadata>, in insertion order: [id, status, retryCount, objectCount, lastAccessTime]
    chunkLayers,     \* Map<string, Konva.Layer>: [chunkId, nodes], nodes the objects added to the layer
    chunkDataCache,  \* Map<string, CanvasObject[]>: ids in insertion order (the payload of id is ChunkData(id))
    cacheAccess,     \* history: cacheAccess[i] ranks the moment the payload chunkDataCache[i] was last stored or handed out
    loadQueue,       \* Array<{chunkId, priority}>
    activeLoads,     \* Set<string>
    renderQueue,     \* Array<{chunkId, priority}>
    isRendering,     \* boolean
    renderTimer,     \* the batch captured by the pending setTimeout callback of processRenderQueue (<<>>: none)
    fetches,         \* loadChunk calls suspended at `await fetchChunkData`: [chunkId, priority, retryCount]
    config,          \* ChunkConfig, fixed at construction
    viewport,        \* the viewport last passed to updateViewport
    updates,         \* the number of updateViewport calls so far
    stats,           \* ChunkedCanvas.stats: [totalChunks, loadedChunks]
    calculated,      \* the chunk id and the RenderPriority of the last call of calculateChunkPriority made on its own (Null: none)
    vmViewport,      \* ViewportManager.viewport
    vmConfig,        \* ViewportManager.config
    worldGroup,      \* position and scale of ViewportManager.worldGroup: [x, y, scale]
    vmAnimation,     \* ViewportManager.animation (Null: none)
    updateScheduled, \* ViewportManager.updateScheduled
    throttleTimers,  \* the pending setTimeout callbacks of scheduleViewportUpdate
    operations,      \* the number of calls of the viewport's public operations so far
    lodLevels,       \* PerformanceOptimizer.config.lodLevels: [zoomThreshold, simplifyFactor, opacity]
    lodState,        \* PerformanceOptimizer.lodState
    received,        \* the last viewport-change payload a subscribed handler holds (Discarded: it keeps none)
    icChunks,        \* InfiniteCanvas.chunks: the chunk objects of the registry
    icChunkLayers,   \* the keys of InfiniteCanvas.chunkLayers
    icRenderQueue,   \* InfiniteCanvas.renderQueue: chunk objects
    icIsRendering,   \* InfiniteCanvas.isRendering (a renderNext frame is requested)
    icLoads,         \* loadChunks callbacks suspended at `await loadChunkData`: the chunk object each one created
    icViewport,      \* InfiniteCanvas.viewport (its visible bounds)
    icCreated,       \* the number of chunk objects created so far
    history,         \* UndoRedoManager.history
    currentIndex,    \* UndoRedoManager.currentIndex
    undoRedoCalls,   \* undo() and redo() calls suspended at their await: [kind, record, nextIndex]
    operationIds,    \* operation ids generateOperationId has handed out
    clock,           \* Date.now() of UndoRedoManager, in milliseconds
    syncQueue,       \* HybridDataSource.syncQueue
    isSyncing,       \* HybridDataSource.isSyncing
    syncPasses,      \* startSync calls suspended at a remote call: the operations each has left, the first one in flight
    remoteSent,      \* the operations the remote source has taken
    localOperations  \* the local operations HybridDataSource has completed

engineVars == <<chunks, chunkLayers, chunkDataCache, cacheAccess, loadQueue, activeLoads,
                renderQueue, isRendering, renderTimer, fetches, config, viewport, updates,
                stats, calculated>>

managerVars == <<vmViewport, vmConfig, worldGroup, vmAnimation, updateScheduled,
                 throttleTimers, operations>>

optimizerVars == <<lodLevels, lodState>>

handlerVars == <<received>>

canvasVars == <<icChunks, icChunkLayers, icRenderQueue, icIsRendering, icLoads,
                icViewport, icCreated>>

undoRedoVars == <<history, currentIndex, undoRedoCalls, operationIds, clock>>

\* the state of the classes beside the engine, the viewport and the optimizer
hybridVars == <<syncQueue, isSyncing, syncPasses, remoteSent, localOperations>>

\* the state of the classes beside the engine, the viewport and the optimizer
collaboratorVars == <<canvasVars, undoRedoVars, hybridVars>>

vars == <<engineVars, managerVars, optimizerVars, handlerVars, collaboratorVars>>

----------------------------------------------------------------------------
(* Bounds of the model *)

\* updateViewport is called at most MaxUpdates times
MaxUpdates == 3

\* SpecEnqueue enqueues the chunks 0_0 .. MaxEnqueueId_0
MaxEnqueueId == 1

\* the public operations of the viewport are called at most MaxOperations times
MaxOperations == 2

\* at most MaxTimers throttle timers are pending at a time
MaxTimers == 1

\* applyLODOptimization is called with at most MaxObjects objects
MaxObjects == 3

----------------------------------------------------------------------------
(* Configuration *)

\* this.stats as the constructor sets it
InitialStats == [ totalChunks |-> 0, loadedChunks |-> 0 ]

\* the defaults of the constructor
DefaultConfig ==
    [ chunkSize          |-> 2000,
      preloadRadius      |-> 2,
      cacheSize          |-> 100,
      maxConcurrentLoads |-> 3,
      loadPriority       |-> "center" ]

\* the Partial<ChunkConfig> the engine is constructed with: no preload margin,
\* a cache of two payloads, two concurrent loads
EngineConfig ==
    [ DefaultConfig EXCEPT !.preloadRadius = 0,
                           !.cacheSize = 2,
                           !.maxConcurrentLoads = 2 ]

loadStrategy ==
    [ visiblePriority |-> 100,
      preloadEnabled  |-> TRUE,
      preloadRadius   |-> config.preloadRadius,
      preloadPriority |-> 50,
      retryOnFail     |-> TRUE,
      maxRetries      |-> 3 ]

frameBudget == 5

\* ChunkStatus
UNLOADED  == "unloaded"
LOADING   == "loading"
LOADED    == "loaded"
RENDERING == "rendering"
RENDERED  == "rendered"
UNLOADING == "unloading"

\* the value of a property that was never assigned
Undefined == "undefined"

----------------------------------------------------------------------------
(* Helpers *)

Range(q) == { q[i] : i \in 1..Len(q) }

Max(S) == CHOOSE m \in S : \A n \in S : n <= m

\* Math.floor(a / b) and Math.ceil(a / b) for integers a and b > 0
FloorDiv(a, b) == a \div b
CeilDiv(a, b) == -((-a) \div b)

RECURSIVE SqrtSearch(_, _, _)
SqrtSearch(n, lo, hi) ==
    IF lo >= hi THEN lo
    ELSE LET mid == (lo + hi + 1) \div 2
         IN  IF mid * mid <= n THEN SqrtSearch(n, mid, hi)
                               ELSE SqrtSearch(n, lo, mid - 1)

\* Math.sqrt, rounded down to a whole world unit
Sqrt(n) == SqrtSearch(n, 0, 46340)

\* Array.prototype.sort((a, b) => b.priority.priority - a.priority.priority):
\* descending, stable
RECURSIVE SortDesc(_)
SortDesc(q) ==
    IF Len(q) <= 1 THEN q
    ELSE LET front == SortDesc(SubSeq(q, 1, Len(q) - 1))
             e     == q[Len(q)]
             k     == Cardinality({ i \in 1..Len(front) :
                                      front[i].priority.priority >= e.priority.priority })
         IN  SubSeq(front, 1, k) \o <<e>> \o SubSeq(front, k + 1, Len(front))

----------------------------------------------------------------------------
(* The chunk grid *)

\* `${x}_${y}`; "x_y".split("_").map(Number) gives x and y back
ChunkId(x, y) == <<x, y>>

\* the ids of columns x0..x1 and rows y0..y1 in the order of the nested
\* for loops (x outer, y inner)
GridIds(x0, x1, y0, y1) ==
    LET w == x1 - x0 + 1
        h == y1 - y0 + 1
    IN  IF w <= 0 \/ h <= 0 THEN <<>>
        ELSE [ i \in 1..(w * h) |-> ChunkId(x0 + ((i - 1) \div h), y0 + ((i - 1) % h)) ]

getVisibleChunkIds(vp) ==
    LET bounds    == vp.visibleBounds
        chunkSize == config.chunkSize
        startX == FloorDiv(bounds.minX, chunkSize)
        startY == FloorDiv(bounds.minY, chunkSize)
        endX   == CeilDiv(bounds.maxX, chunkSize)
        endY   == CeilDiv(bounds.maxY, chunkSize)
    IN  GridIds(startX, endX, startY, endY)

getPreloadChunkIds(vp, visibleChunkIds) ==
    IF ~loadStrategy.preloadEnabled THEN <<>>
    ELSE
    LET bounds    == vp.visibleBounds
        chunkSize == config.chunkSize
        radius    == loadStrategy.preloadRadius
        startX == FloorDiv(bounds.minX - radius * chunkSize, chunkSize)
        startY == FloorDiv(bounds.minY - radius * chunkSize, chunkSize)
        endX   == CeilDiv(bounds.maxX + radius * chunkSize, chunkSize)
        endY   == CeilDiv(bounds.maxY + radius * chunkSize, chunkSize)
    IN  SelectSeq(GridIds(startX, endX, startY, endY),
                  LAMBDA id : id \notin Range(visibleChunkIds))

\* visible ∪ preload of a viewport
Wanted(vp) ==
    LET visible == getVisibleChunkIds(vp)
    IN  Range(visible) \cup Range(getPreloadChunkIds(vp, visible))

\* distance between the chunk's centre and the viewport's centre, in whole
\* world units (computed on doubled coordinates, which are integers)
ChunkDistance(chunkId, vp) ==
    LET b   == vp.visibleBounds
        cx2 == (2 * chunkId[1] + 1) * config.chunkSize
        cy2 == (2 * chunkId[2] + 1) * config.chunkSize
        vx2 == b.minX + b.maxX
        vy2 == b.minY + b.maxY
    IN  Sqrt((cx2 - vx2) * (cx2 - vx2) + (cy2 - vy2) * (cy2 - vy2)) \div 2

\* The priority is kept in thousandths (100000 is priority 100).
calculateChunkPriority(chunkId, vp) ==
    LET distance  == ChunkDistance(chunkId, vp)
        isVisible == chunkId \in Range(getVisibleChunkIds(vp))
        isPreload == ~isVisible /\ chunkId \in Range(getPreloadChunkIds(vp, <<>>))
        maxDistance == config.chunkSize * loadStrategy.preloadRadius
        base == IF isVisible THEN loadStrategy.visiblePriority * 1000
                ELSE IF isPreload
                     THEN (loadStrategy.preloadPriority * 1000 * (maxDistance - distance))
                              \div maxDistance
                     ELSE 0
        reason == IF isVisible THEN "visible" ELSE IF isPreload THEN "preload" ELSE "user"
        far == config.chunkSize * 10
        priority == IF config.loadPriority = "center"
                    THEN (base * (far - distance)) \div far
                    ELSE base
        clampedHigh == IF priority > 100000 THEN 100000 ELSE priority
    IN  [ priority |-> IF clampedHigh < 0 THEN 0 ELSE clampedHigh,
          reason   |-> reason ]

----------------------------------------------------------------------------
(* The data provider and the object renderer *)

\* the object types ObjectRenderer.createNode has a case for; any other type throws
SupportedTypes ==
    { "rectangle", "ellipse", "circle", "line", "path", "text", "image",
      "polygon", "star", "group" }

Materializable(object) == object \in SupportedTypes

\* what the subclass's fetchChunkData resolves with for a chunk: the types of
\* the chunk's objects
ChunkData(chunkId) ==
    IF chunkId = ChunkId(1, 0) THEN <<"rectangle", "hologram", "circle">>
    ELSE IF (chunkId[1] + chunkId[2]) % 2 = 0 THEN <<"rectangle", "text">>
    ELSE <<>>

\* the chunks whose fetch may be rejected
CanFail(chunkId) == chunkId = ChunkId(0, 0)

----------------------------------------------------------------------------
(* The engine's state as one record, so that a handler is the composition  *)
(* of the methods it calls.  now is Date.now() of the running handler,     *)
(* emitted the events it has emitted (<<event, chunkId>>) and threw tells  *)
(* that an exception left the method.                                      *)

HasChunk(s, chunkId) == \E i \in 1..Len(s.chunks) : s.chunks[i].id = chunkId

GetChunk(s, chunkId) ==
    s.chunks[CHOOSE i \in 1..Len(s.chunks) : s.chunks[i].id = chunkId]

\* Map.set: an existing key keeps its place, a new key goes last
SetChunk(s, chunk) ==
    IF HasChunk(s, chunk.id)
    THEN [ s EXCEPT !.chunks =
             [ i \in 1..Len(s.chunks) |->
                 IF s.chunks[i].id = chunk.id THEN chunk ELSE s.chunks[i] ] ]
    ELSE [ s EXCEPT !.chunks = Append(s.chunks, chunk) ]

SetStatus(s, chunkId, status) ==
    SetChunk(s, [ GetChunk(s, chunkId) EXCEPT !.status = status ])

emit(s, event, chunkId) ==
    [ s EXCEPT !.emitted = s.emitted \cup { <<event, chunkId>> } ]

ChunkIdsOf(s) == [ i \in 1..Len(s.chunks) |-> s.chunks[i].id ]

\* Array.findIndex on a queue (0 where the code has -1)
FindIndex(q, chunkId) ==
    IF \E i \in 1..Len(q) : q[i].chunkId = chunkId
    THEN CHOOSE i \in 1..Len(q) :
            /\ q[i].chunkId = chunkId
            /\ \A j \in 1..(i - 1) : q[j].chunkId # chunkId
    ELSE 0

Min2(a, b) == IF a < b THEN a ELSE b

----------------------------------------------------------------------------
(* Methods the class calls but does not define                             *)

\* this.updateChunkPriorities(viewport): no effect on registry, queues or cache
\* is described for it
updateChunkPriorities(s, vp) == s

\* this.calculateCurrentPriority(chunkId): "a freshly computed priority",
\* the priority function at the current viewport
calculateCurrentPriority(s, chunkId) == calculateChunkPriority(chunkId, s.viewport)

----------------------------------------------------------------------------
(* Load queue *)

\* a plausible slip: the queue is left as the push or the raise made it
sortLoadQueue_Skipped(s) == s

sortLoadQueue(s) == [ s EXCEPT !.loadQueue = SortDesc(s.loadQueue) ]

NewChunk(chunkId, now) ==
    [ id             |-> chunkId,
      status         |-> UNLOADED,
      retryCount     |-> Undefined,
      objectCount    |-> 0,
      lastAccessTime |-> now ]

\* a plausible slip: the entry is pushed without looking for an existing one
addToLoadQueue_NoLookup(s, chunkId, priority) ==
    SetChunk(sortLoadQueue([ s EXCEPT !.loadQueue =
                 Append(@, [ chunkId |-> chunkId, priority |-> priority ]) ]),
             NewChunk(chunkId, s.now))

addToLoadQueue(s, chunkId, priority) ==
    LET existingIndex == FindIndex(s.loadQueue, chunkId)
    IN  IF existingIndex >= 1
        THEN IF priority.priority > s.loadQueue[existingIndex].priority.priority
             THEN sortLoadQueue([ s EXCEPT !.loadQueue[existingIndex].priority = priority ])
             ELSE s
        ELSE SetChunk(sortLoadQueue([ s EXCEPT
                          !.loadQueue = Append(@, [ chunkId |-> chunkId, priority |-> priority ]),
                          !.stats.totalChunks = @ + 1 ]),
                      NewChunk(chunkId, s.now))

----------------------------------------------------------------------------
(* Render queue *)

sortRenderQueue(s) == [ s EXCEPT !.renderQueue = SortDesc(s.renderQueue) ]

addToRenderQueue(s, chunkId, priority) ==
    LET existingIndex == FindIndex(s.renderQueue, chunkId)
    IN  IF existingIndex >= 1
        THEN IF priority.priority > s.renderQueue[existingIndex].priority.priority
             THEN sortRenderQueue([ s EXCEPT !.renderQueue[existingIndex].priority = priority ])
             ELSE s
        ELSE sortRenderQueue([ s EXCEPT !.renderQueue =
                 Append(@, [ chunkId |-> chunkId, priority |-> priority ]) ])

\* the synchronous part of processRenderQueue: the batch leaves the queue and
\* waits in the setTimeout callback
processRenderQueue(s) ==
    IF s.isRendering \/ Len(s.renderQueue) = 0 THEN s
    ELSE LET n == Min2(frameBudget, Len(s.renderQueue))
         IN  [ s EXCEPT !.renderQueue = SubSeq(@, n + 1, Len(@)),
                        !.isRendering = TRUE,
                        !.renderTimer = SubSeq(s.renderQueue, 1, n) ]

----------------------------------------------------------------------------
(* Loading *)

\* throws (TypeError on chunk.status) when the chunk has no record: callers
\* test HasChunk first
onChunkDataLoaded(s, chunkId) ==
    LET chunk == GetChunk(s, chunkId)
        data  == ChunkData(chunkId)
        s1 == SetChunk(s, [ chunk EXCEPT !.status = LOADED,
                                         !.objectCount = Len(data),
                                         !.lastAccessTime = s.now ])
        priority == calculateCurrentPriority(s1, chunkId)
    IN  emit(addToRenderQueue(s1, chunkId, priority), "chunk-loaded", chunkId)

\* loadChunk up to its first suspension. A cached chunk is handed to
\* onChunkDataLoaded and the method returns before the try block, so its
\* finally clause (activeLoads.delete) does not apply to it.
loadChunk(s, chunkId, priority) ==
    LET s1 == [ SetStatus(s, chunkId, LOADING) EXCEPT
                  !.activeLoads = @ \cup {chunkId},
                  !.stats.loadedChunks = @ + 1 ]
    IN  IF chunkId \in Range(s1.chunkDataCache)
        THEN onChunkDataLoaded(s1, chunkId)
        ELSE [ s1 EXCEPT !.fetches = @ \cup
                 { [ chunkId    |-> chunkId,
                     priority   |-> priority,
                     retryCount |-> GetChunk(s, chunkId).retryCount ] } ]

RECURSIVE loadEach(_, _)
loadEach(s, items) ==
    IF items = <<>> THEN s
    ELSE loadEach(loadChunk(s, Head(items).chunkId, Head(items).priority), Tail(items))

\* a plausible slip: the free slots are not reduced by the loads in flight
processLoadQueue_IgnoresActive(s) ==
    IF Len(s.loadQueue) = 0 THEN s
    ELSE LET n == Min2(config.maxConcurrentLoads, Len(s.loadQueue))
         IN  loadEach([ s EXCEPT !.loadQueue = SubSeq(@, n + 1, Len(@)) ],
                      SubSeq(s.loadQueue, 1, n))

processLoadQueue(s) ==
    IF Cardinality(s.activeLoads) >= config.maxConcurrentLoads \/ Len(s.loadQueue) = 0
    THEN s
    ELSE LET n == Min2(config.maxConcurrentLoads - Cardinality(s.activeLoads),
                       Len(s.loadQueue))
         IN  loadEach([ s EXCEPT !.loadQueue = SubSeq(@, n + 1, Len(@)) ],
                      SubSeq(s.loadQueue, 1, n))

\* the catch block of loadChunk. f.retryCount is chunk.retryCount of the
\* captured chunk object; `undefined < maxRetries` is false.
loadChunkCatch(s, f) ==
    IF /\ loadStrategy.retryOnFail
       /\ f.retryCount # Undefined
       /\ f.retryCount < loadStrategy.maxRetries
    THEN LET s1 == IF HasChunk(s, f.chunkId)
                   THEN SetChunk(s, [ GetChunk(s, f.chunkId) EXCEPT
                                        !.retryCount = f.retryCount + 1 ])
                   ELSE s
         IN  addToLoadQueue(s1, f.chunkId, f.priority)
    ELSE LET s1 == [ s EXCEPT !.stats.loadedChunks = @ - 1 ]
         IN  IF HasChunk(s1, f.chunkId)
             THEN SetStatus(s1, f.chunkId, UNLOADED)
             ELSE s1

\* the finally block of loadChunk
loadChunkFinally(s, f) ==
    [ s EXCEPT !.activeLoads = @ \ {f.chunkId}, !.fetches = @ \ {f} ]

\* a plausible slip: the result is handled without looking whether the chunk
\* is still registered
loadChunkResolved_NoCheck(s, f) ==
    LET cached == IF f.chunkId \in Range(s.chunkDataCache) THEN s
                  ELSE [ s EXCEPT !.chunkDataCache = Append(@, f.chunkId) ]
        known  == IF HasChunk(cached, f.chunkId) THEN cached
                  ELSE SetChunk(cached, NewChunk(f.chunkId, s.now))
    IN  loadChunkFinally(onChunkDataLoaded(known, f.chunkId), f)

\* loadChunk from the resolution of fetchChunkData to its end
loadChunkResolved(s, f) ==
    LET cached == IF f.chunkId \in Range(s.chunkDataCache) THEN s
                  ELSE [ s EXCEPT !.chunkDataCache = Append(@, f.chunkId) ]
    IN  IF HasChunk(cached, f.chunkId)
        THEN loadChunkFinally(onChunkDataLoaded(cached, f.chunkId), f)
        ELSE loadChunkFinally(loadChunkCatch(cached, f), f)

\* loadChunk from the rejection of fetchChunkData to its end
loadChunkRejected(s, f) == loadChunkFinally(loadChunkCatch(s, f), f)

----------------------------------------------------------------------------
(* Rendering *)

LayerOf(s, chunkId) == { l \in s.chunkLayers : l.chunkId = chunkId }

\* renderChunkLayer: every object of the cached payload is materialized and
\* added; createNode throwing ends the method (threw) before the layer is
\* registered in chunkLayers
renderChunkLayer(s, chunkId) ==
    LET chunkData == IF chunkId \in Range(s.chunkDataCache)
                     THEN ChunkData(chunkId) ELSE <<>>
    IN  IF \A i \in 1..Len(chunkData) : Materializable(chunkData[i])
        THEN [ s EXCEPT !.chunkLayers =
                 (@ \ LayerOf(s, chunkId)) \cup
                 { [ chunkId |-> chunkId, nodes |-> chunkData ] } ]
        ELSE [ s EXCEPT !.threw = TRUE ]

\* the body of the forEach of renderChunks for a chunk that has a record
renderChunk(s, chunkId) ==
    IF GetChunk(s, chunkId).status # LOADED THEN s
    ELSE LET s1 == SetStatus(s, chunkId, RENDERING)
             r  == renderChunkLayer(s1, chunkId)
         IN  IF r.threw
             THEN SetStatus(s1, chunkId, LOADED)
             ELSE emit(SetStatus(r, chunkId, RENDERED), "chunk-rendered", chunkId)

\* renderChunks: chunks.get(chunkId)! of a chunk without a record is
\* undefined and reading its status throws out of the forEach (threw)
RECURSIVE renderChunks(_, _)
renderChunks(s, batch) ==
    IF batch = <<>> THEN s
    ELSE IF ~HasChunk(s, Head(batch).chunkId)
         THEN [ s EXCEPT !.threw = TRUE ]
         ELSE renderChunks(renderChunk(s, Head(batch).chunkId), Tail(batch))

\* the setTimeout callback of processRenderQueue: isRendering is reset only
\* when renderChunks returns
renderTimeout(s) ==
    LET r == renderChunks(s, s.renderTimer)
    IN  [ r EXCEPT !.renderTimer = <<>>,
                   !.isRendering = r.threw,
                   !.threw = FALSE ]

----------------------------------------------------------------------------
(* Unloading and the cache *)

\* sort((a, b) => a.lastAccessTime - b.lastAccessTime): ascending, stable
RECURSIVE SortByAccess(_)
SortByAccess(q) ==
    IF Len(q) <= 1 THEN q
    ELSE LET front == SortByAccess(SubSeq(q, 1, Len(q) - 1))
             e     == q[Len(q)]
             k     == Cardinality({ i \in 1..Len(front) :
                                      front[i].lastAccessTime <= e.lastAccessTime })
         IN  SubSeq(front, 1, k) \o <<e>> \o SubSeq(front, k + 1, Len(front))

cleanupCache(s) ==
    IF Len(s.chunkDataCache) <= config.cacheSize THEN s
    ELSE LET cacheEntries == SortByAccess(
                 [ i \in 1..Len(s.chunkDataCache) |->
                     [ chunkId        |-> s.chunkDataCache[i],
                       lastAccessTime |->
                           IF HasChunk(s, s.chunkDataCache[i])
                           THEN GetChunk(s, s.chunkDataCache[i]).lastAccessTime
                           ELSE 0 ] ])
             itemsToRemove == SubSeq(cacheEntries, 1,
                                     Len(s.chunkDataCache) - config.cacheSize)
             removed == { itemsToRemove[i].chunkId : i \in 1..Len(itemsToRemove) }
         IN  [ s EXCEPT !.chunkDataCache =
                 SelectSeq(@, LAMBDA id : id \notin removed) ]

cleanupChunkMemory(s, chunkId) ==
    IF Len(s.chunkDataCache) > config.cacheSize THEN cleanupCache(s) ELSE s

\* a plausible slip: a chunk whose load is in flight is left alone
unloadChunk_SkipsLoading(s, chunkId) ==
    IF ~HasChunk(s, chunkId) \/ chunkId \in s.activeLoads THEN s
    ELSE LET s1 == [ s EXCEPT
                       !.chunkLayers = @ \ LayerOf(s, chunkId),
                       !.loadQueue   = SelectSeq(@, LAMBDA item : item.chunkId # chunkId),
                       !.renderQueue = SelectSeq(@, LAMBDA item : item.chunkId # chunkId) ]
             s2 == emit(cleanupChunkMemory(s1, chunkId), "chunk-unloaded", chunkId)
         IN  [ s2 EXCEPT !.chunks = SelectSeq(@, LAMBDA c : c.id # chunkId) ]

\* the body of the forEach of unloadChunks (the status UNLOADING is set on a
\* record that is deleted before the method returns)
\* a plausible slip: the render queue is not purged
unloadChunk_KeepsQueued(s, chunkId) ==
    IF ~HasChunk(s, chunkId) THEN s
    ELSE LET s1 == [ s EXCEPT
                       !.chunkLayers = @ \ LayerOf(s, chunkId),
                       !.loadQueue   = SelectSeq(@, LAMBDA item : item.chunkId # chunkId) ]
             s2 == emit(cleanupChunkMemory(s1, chunkId), "chunk-unloaded", chunkId)
         IN  [ s2 EXCEPT !.chunks = SelectSeq(@, LAMBDA c : c.id # chunkId) ]

unloadChunk(s, chunkId) ==
    IF ~HasChunk(s, chunkId) THEN s
    ELSE LET s1 == [ s EXCEPT
                       !.chunkLayers = @ \ LayerOf(s, chunkId),
                       !.loadQueue   = SelectSeq(@, LAMBDA item : item.chunkId # chunkId),
                       !.renderQueue = SelectSeq(@, LAMBDA item : item.chunkId # chunkId),
                       !.stats.loadedChunks = @ - 1 ]
             s2 == emit(cleanupChunkMemory(s1, chunkId), "chunk-unloaded", chunkId)
         IN  [ s2 EXCEPT !.chunks = SelectSeq(@, LAMBDA c : c.id # chunkId) ]

RECURSIVE unloadChunks(_, _)
unloadChunks(s, chunkIds) ==
    IF chunkIds = <<>> THEN s
    ELSE unloadChunks(unloadChunk(s, Head(chunkIds)), Tail(chunkIds))

----------------------------------------------------------------------------
(* updateViewport *)

\* this.processQueues() (not defined in the class): the load queue, then the
\* render queue, as the frame callback of the same name does
processQueues(s) == processRenderQueue(processLoadQueue(s))

RECURSIVE enqueueLoads(_, _, _)
enqueueLoads(s, chunkIds, vp) ==
    IF chunkIds = <<>> THEN s
    ELSE enqueueLoads(
             addToLoadQueue(s, Head(chunkIds), calculateChunkPriority(Head(chunkIds), vp)),
             Tail(chunkIds), vp)

updateViewport(s, vp) ==
    LET visibleChunkIds  == getVisibleChunkIds(vp)
        preloadChunkIds  == getPreloadChunkIds(vp, visibleChunkIds)
        allChunkIds      == visibleChunkIds \o preloadChunkIds
        existingChunkIds == ChunkIdsOf(s)
        chunksToUnload == SelectSeq(existingChunkIds,
                                    LAMBDA id : id \notin Range(allChunkIds))
        chunksToLoad   == SelectSeq(allChunkIds,
                                    LAMBDA id : /\ id \notin Range(existingChunkIds)
                                                /\ id \notin s.activeLoads)
        s1 == unloadChunks([ s EXCEPT !.viewport = vp ], chunksToUnload)
        s2 == enqueueLoads(s1, chunksToLoad, vp)
        s3 == updateChunkPriorities(s2, vp)
        s4 == processQueues(s3)
    IN  emit(s4, "viewport-updated", <<>>)

\* the frame callback installed by startQueueProcessing
queueProcessingFrame(s) == processRenderQueue(processLoadQueue(s))

----------------------------------------------------------------------------
(* Numbers of the viewport: JavaScript numbers as exact fractions <<n, d>>  *)
(* in lowest terms with d > 0 (rounding of floating point left aside), and  *)
(* NaN (written 0/0) for what arithmetic on undefined gives                 *)

NaN == << 0, 0 >>

Abs(n) == IF n < 0 THEN -n ELSE n

RECURSIVE Gcd(_, _)
Gcd(a, b) == IF b = 0 THEN a ELSE Gcd(b, a % b)

Frac(n, d) ==
    LET g == Gcd(Abs(n), Abs(d))
        s == IF d < 0 THEN -1 ELSE 1
    IN  << (s * n) \div g, (s * d) \div g >>

Num(n) == << n, 1 >>

\* common factors are divided out before multiplying
Plus(a, b) ==
    IF a = NaN \/ b = NaN THEN NaN
    ELSE LET g == Gcd(a[2], b[2])
         IN  Frac(a[1] * (b[2] \div g) + b[1] * (a[2] \div g), (a[2] \div g) * b[2])

Neg(a) == IF a = NaN THEN NaN ELSE << -a[1], a[2] >>

Minus(a, b) == Plus(a, Neg(b))

Times(a, b) ==
    IF a = NaN \/ b = NaN THEN NaN
    ELSE LET g1 == Gcd(Abs(a[1]), b[2])
             g2 == Gcd(Abs(b[1]), a[2])
         IN  Frac((a[1] \div g1) * (b[1] \div g2), (a[2] \div g2) * (b[2] \div g1))

\* a / b (a division by 0 gives no finite number)
Over(a, b) ==
    IF a = NaN \/ b = NaN \/ b[1] = 0 THEN NaN
    ELSE Times(a, IF b[1] < 0 THEN << -b[2], -b[1] >> ELSE << b[2], b[1] >>)

\* a < b; a comparison with NaN is false
Less(a, b) ==
    /\ a # NaN
    /\ b # NaN
    /\ LET g == Gcd(a[2], b[2]) IN a[1] * (b[2] \div g) < b[1] * (a[2] \div g)

\* Math.min and Math.max: NaN when an argument is NaN
MathMin(S) == IF NaN \in S THEN NaN ELSE CHOOSE m \in S : \A n \in S : ~Less(n, m)
MathMax(S) == IF NaN \in S THEN NaN ELSE CHOOSE m \in S : \A n \in S : ~Less(m, n)

----------------------------------------------------------------------------
(* ViewportManager (viewport/ViewportManager.ts).  As for the chunk engine, *)
(* the manager's state is one record v, so that an operation is the         *)
(* composition of the methods it calls:                                     *)
(*   viewport, config, animation, updateScheduled: the fields of the class; *)
(*   worldGroup: position and scale of the Konva group;                     *)
(*   timers: the pending setTimeout callbacks of scheduleViewportUpdate;    *)
(*   due: performance.now() - lastUpdateTime >= throttleInterval;           *)
(*   events: the events handed to the subscribers by the running operation. *)

\* no animation, no payload
Null == [ type |-> "none" ]

\* what a handler holds that keeps no payload
Discarded == [ type |-> "discarded" ]

\* the size of the stage and the container's size at a resize
StageSize   == [ width |-> Num(8), height |-> Num(6) ]
ResizedSize == [ width |-> Num(4), height |-> Num(3) ]

\* the defaults of the constructor (the parts the operations read)
DefaultViewportConfig ==
    [ minZoom     |-> Frac(1, 10),
      maxZoom     |-> Num(20),
      defaultZoom |-> Num(1),
      zoomStep    |-> Frac(1, 5),
      animation   |-> [ enabled |-> TRUE, easing |-> "easeOutCubic" ],
      constraints |-> [ enabled |-> FALSE ],
      performance |-> [ throttleViewportUpdates |-> TRUE ] ]

\* a configuration that keeps the viewport's world origin inside a rectangle
ConstrainedViewportConfig ==
    [ DefaultViewportConfig EXCEPT
        !.constraints = [ enabled |-> TRUE,
                          minX |-> Num(0), maxX |-> Num(10),
                          minY |-> Num(0), maxY |-> Num(10) ] ]

\* this.viewport before the constructor body runs: screenWidth, screenHeight,
\* zoom and visibleBounds are undefined
FieldViewport ==
    [ worldX |-> Num(0), worldY |-> Num(0), screenX |-> Num(0), screenY |-> Num(0),
      zoom |-> NaN, screenWidth |-> NaN, screenHeight |-> NaN, visibleBounds |-> NaN ]

calculateVisibleBounds(v, worldX, worldY, zoom) ==
    LET toWorldX(screenX) == Over(Minus(screenX, v.viewport.screenX), zoom)
        toWorldY(screenY) == Over(Minus(screenY, v.viewport.screenY), zoom)
        xs == { toWorldX(Num(0)), toWorldX(v.viewport.screenWidth) }
        ys == { toWorldY(Num(0)), toWorldY(v.viewport.screenHeight) }
    IN  [ minX |-> MathMin(xs), minY |-> MathMin(ys),
          maxX |-> MathMax(xs), maxY |-> MathMax(ys) ]

createInitialViewport(v) ==
    [ worldX |-> Num(0), worldY |-> Num(0), screenX |-> Num(0), screenY |-> Num(0),
      zoom          |-> v.config.defaultZoom,
      screenWidth   |-> StageSize.width,
      screenHeight  |-> StageSize.height,
      visibleBounds |-> calculateVisibleBounds(v, Num(0), Num(0), v.config.defaultZoom) ]

clampZoom(v, zoom) == MathMax({ v.config.minZoom, MathMin({ v.config.maxZoom, zoom }) })

screenToWorld(v, screenPos) ==
    [ x |-> Over(Minus(screenPos.x, v.worldGroup.x), v.worldGroup.scale),
      y |-> Over(Minus(screenPos.y, v.worldGroup.y), v.worldGroup.scale) ]

worldToScreen(v, worldPos) ==
    [ x |-> Plus(Times(worldPos.x, v.worldGroup.scale), v.worldGroup.x),
      y |-> Plus(Times(worldPos.y, v.worldGroup.scale), v.worldGroup.y) ]

\* every event type has a subscriber; the event object is built by the caller
emitEvent(v, event) == [ v EXCEPT !.events = Append(@, event) ]

\* a plausible slip: the payload's viewport is this.viewport, not a copy
emitViewportChange_Live(v, source) ==
    emitEvent(v, [ type |-> "viewport-change", viewport |-> v.viewport, source |-> source,
                   live |-> TRUE ])

\* viewport: { ...this.viewport }, a copy of the fields (live: the payload's
\* viewport is the object this.viewport itself)
emitViewportChange(v, source) ==
    emitEvent(v, [ type |-> "viewport-change", viewport |-> v.viewport, source |-> source,
                   live |-> FALSE ])

emitZoomEvent(v, type, oldZoom, newZoom) ==
    emitEvent(v, [ type |-> type, viewport |-> v.viewport,
                   delta |-> Minus(newZoom, oldZoom), source |-> "user", live |-> FALSE ])

emitPanEvent(v, type) ==
    emitEvent(v, [ type |-> type, viewport |-> v.viewport, source |-> "user",
                   live |-> FALSE ])

scheduleViewportUpdate(v) ==
    IF ~v.config.performance.throttleViewportUpdates
    THEN emitViewportChange(v, "user")
    ELSE IF v.due
         THEN [ emitViewportChange(v, "user") EXCEPT !.due = FALSE,
                                                      !.updateScheduled = FALSE ]
         ELSE IF ~v.updateScheduled
              THEN [ v EXCEPT !.updateScheduled = TRUE, !.timers = @ + 1 ]
              ELSE v

\* the setTimeout callback of scheduleViewportUpdate
throttleTimeout(v) ==
    LET v1 == [ v EXCEPT !.timers = @ - 1 ]
    IN  IF v1.updateScheduled
        THEN [ emitViewportChange(v1, "user") EXCEPT !.updateScheduled = FALSE,
                                                      !.due = FALSE ]
        ELSE v1

applyConstraints(v) ==
    LET c  == v.config.constraints
        wx == IF Less(v.viewport.worldX, c.minX) THEN c.minX ELSE v.viewport.worldX
        worldX == IF Less(c.maxX, wx) THEN c.maxX ELSE wx
        wy == IF Less(v.viewport.worldY, c.minY) THEN c.minY ELSE v.viewport.worldY
        worldY == IF Less(c.maxY, wy) THEN c.maxY ELSE wy
        changed == worldX # v.viewport.worldX \/ worldY # v.viewport.worldY
        screenX == Neg(Times(worldX, v.viewport.zoom))
        screenY == Neg(Times(worldY, v.viewport.zoom))
    IN  IF ~changed THEN v
        ELSE [ v EXCEPT !.viewport.worldX  = worldX,
                        !.viewport.worldY  = worldY,
                        !.viewport.screenX = screenX,
                        !.viewport.screenY = screenY,
                        !.worldGroup.x     = screenX,
                        !.worldGroup.y     = screenY ]

updateViewportFromWorldGroup(v) ==
    LET position == v.worldGroup
        scale    == v.worldGroup.scale
        v1 == [ v EXCEPT !.viewport.screenX = position.x,
                         !.viewport.screenY = position.y,
                         !.viewport.zoom    = scale,
                         !.viewport.worldX  = Over(Neg(position.x), scale),
                         !.viewport.worldY  = Over(Neg(position.y), scale) ]
        v2 == [ v1 EXCEPT !.viewport.visibleBounds =
                  calculateVisibleBounds(v1, Over(Neg(position.x), scale),
                                         Over(Neg(position.y), scale), scale) ]
        v3 == IF v2.config.constraints.enabled THEN applyConstraints(v2) ELSE v2
    IN  scheduleViewportUpdate(v3)

\* this.viewport = viewport replaces the object: an animation that was started
\* with the old object itself as startViewport (setViewport) keeps the old
\* object, which is not written after this
applyViewport(v, vp) ==
    LET kept == IF v.animation # Null /\ v.animation.live
                THEN [ v EXCEPT !.animation.startViewport = v.viewport,
                                !.animation.live = FALSE ]
                ELSE v
    IN  scheduleViewportUpdate(
            [ kept EXCEPT !.worldGroup = [ x |-> vp.screenX, y |-> vp.screenY,
                                           scale |-> vp.zoom ],
                          !.viewport = vp,
                          !.replaced = TRUE ])

\* getEasingFunction: an unknown name gives easeOutCubic (--t * t * t + 1)
Easing(name, t) ==
    IF name = "linear" THEN t
    ELSE LET u == Minus(t, Num(1)) IN Plus(Times(u, Times(u, u)), Num(1))

Lerp(a, b, t) == Plus(a, Times(Minus(b, a), t))

interpolateViewport(v, start, end, t) ==
    [ worldX  |-> Lerp(start.worldX, end.worldX, t),
      worldY  |-> Lerp(start.worldY, end.worldY, t),
      screenX |-> Lerp(start.screenX, end.screenX, t),
      screenY |-> Lerp(start.screenY, end.screenY, t),
      zoom    |-> Lerp(start.zoom, end.zoom, t),
      screenWidth  |-> end.screenWidth,
      screenHeight |-> end.screenHeight,
      visibleBounds |-> calculateVisibleBounds(v, Lerp(start.worldX, end.worldX, t),
                                               Lerp(start.worldY, end.worldY, t),
                                               Lerp(start.zoom, end.zoom, t)) ]

\* a ViewportAnimation: zoomEvents tells that onUpdate and onComplete are set
\* (they emit zoom and zoom-end from startZoom), live that startViewport is
\* the object this.viewport itself
Animation(type, startViewport, targetViewport, zoomEvents, startZoom, live) ==
    [ type |-> type, startViewport |-> startViewport, targetViewport |-> targetViewport,
      zoomEvents |-> zoomEvents, startZoom |-> startZoom, live |-> live ]

startAnimation(v, animation) ==
    LET v1 == [ v EXCEPT !.animation = animation ]
        v2 == IF animation.type \in { "zoom", "both" }
              THEN emitZoomEvent(v1, "zoom-start", v1.viewport.zoom, animation.targetViewport.zoom)
              ELSE v1
    IN  IF animation.type \in { "pan", "both" } THEN emitPanEvent(v2, "pan-start") ELSE v2

\* updateAnimation at a time where elapsed / duration is progress (the events
\* at the end read this.animation after it was set to null: none is emitted)
updateAnimation(v, progress) ==
    IF v.animation = Null THEN v
    ELSE LET a     == v.animation
             start == IF a.live THEN v.viewport ELSE a.startViewport
             easedProgress   == Easing(v.config.animation.easing, progress)
             currentViewport == interpolateViewport(v, start, a.targetViewport, easedProgress)
             v1 == applyViewport(v, currentViewport)
             v2 == IF a.zoomEvents
                   THEN emitZoomEvent(v1, "zoom", a.startZoom, currentViewport.zoom)
                   ELSE v1
         IN  IF Less(progress, Num(1)) THEN v2
             ELSE LET v3 == [ v2 EXCEPT !.animation = Null ]
                  IN  IF a.zoomEvents
                      THEN emitZoomEvent(v3, "zoom-end", a.startZoom, a.targetViewport.zoom)
                      ELSE v3

immediateZoomToPoint(v, point, oldZoom, newZoom) ==
    LET worldPoint == screenToWorld(v, point)
        v1 == [ v EXCEPT !.worldGroup.scale = newZoom, !.viewport.zoom = newZoom ]
        newScreenPoint == worldToScreen(v1, worldPoint)
        dx == Minus(point.x, newScreenPoint.x)
        dy == Minus(point.y, newScreenPoint.y)
        v2 == [ v1 EXCEPT !.worldGroup.x = Plus(@, dx), !.worldGroup.y = Plus(@, dy) ]
        v3 == updateViewportFromWorldGroup(v2)
    IN  emitViewportChange(emitZoomEvent(v3, "zoom", oldZoom, newZoom), "user")

\* a plausible slip: the target offset is taken for the old zoom
animateZoomToPoint_OldZoom(v, point, startZoom, endZoom) ==
    LET worldPoint    == screenToWorld(v, point)
        targetScreenX == Plus(Neg(Times(worldPoint.x, startZoom)), point.x)
        targetScreenY == Plus(Neg(Times(worldPoint.y, startZoom)), point.y)
        targetViewport ==
            [ v.viewport EXCEPT
                !.zoom = endZoom, !.screenX = targetScreenX, !.screenY = targetScreenY,
                !.worldX = Over(Neg(targetScreenX), endZoom),
                !.worldY = Over(Neg(targetScreenY), endZoom),
                !.visibleBounds = calculateVisibleBounds(v, Over(Neg(targetScreenX), endZoom),
                                                         Over(Neg(targetScreenY), endZoom), endZoom) ]
    IN  startAnimation(v, Animation("zoom", v.viewport, targetViewport, TRUE, startZoom, FALSE))

animateZoomToPoint(v, point, startZoom, endZoom) ==
    LET startViewport == v.viewport
        worldPoint    == screenToWorld(v, point)
        targetZoom    == endZoom
        targetScreenX == Plus(Neg(Times(worldPoint.x, targetZoom)), point.x)
        targetScreenY == Plus(Neg(Times(worldPoint.y, targetZoom)), point.y)
        targetViewport ==
            [ startViewport EXCEPT
                !.zoom = targetZoom, !.screenX = targetScreenX, !.screenY = targetScreenY,
                !.worldX = Over(Neg(targetScreenX), targetZoom),
                !.worldY = Over(Neg(targetScreenY), targetZoom),
                !.visibleBounds = calculateVisibleBounds(v, Over(Neg(targetScreenX), targetZoom),
                                                         Over(Neg(targetScreenY), targetZoom),
                                                         targetZoom) ]
    IN  startAnimation(v, Animation("zoom", startViewport, targetViewport, TRUE, startZoom, FALSE))

zoomToPoint(v, point, deltaZoom, animate) ==
    LET oldZoom == v.viewport.zoom
        newZoom == clampZoom(v, Plus(oldZoom, deltaZoom))
    IN  IF oldZoom = newZoom /\ oldZoom # NaN THEN v
        ELSE IF animate /\ v.config.animation.enabled
             THEN animateZoomToPoint(v, point, oldZoom, newZoom)
             ELSE immediateZoomToPoint(v, point, oldZoom, newZoom)

zoomToCenter(v, deltaZoom, animate) ==
    zoomToPoint(v, [ x |-> Over(v.viewport.screenWidth, Num(2)),
                     y |-> Over(v.viewport.screenHeight, Num(2)) ], deltaZoom, animate)

immediatePanBy(v, dx, dy) ==
    emitViewportChange(
        updateViewportFromWorldGroup(
            [ v EXCEPT !.worldGroup.x = Plus(@, dx), !.worldGroup.y = Plus(@, dy) ]),
        "user")

animatePanBy(v, dx, dy) ==
    LET startViewport == v.viewport
        targetScreenX == Plus(v.viewport.screenX, dx)
        targetScreenY == Plus(v.viewport.screenY, dy)
        worldX == Over(Neg(targetScreenX), v.viewport.zoom)
        worldY == Over(Neg(targetScreenY), v.viewport.zoom)
        targetViewport ==
            [ startViewport EXCEPT
                !.screenX = targetScreenX, !.screenY = targetScreenY,
                !.worldX = worldX, !.worldY = worldY,
                !.visibleBounds = calculateVisibleBounds(v, worldX, worldY, v.viewport.zoom) ]
    IN  startAnimation(v, Animation("pan", startViewport, targetViewport, FALSE, NaN, FALSE))

panBy(v, dx, dy, animate) ==
    IF animate /\ v.config.animation.enabled THEN animatePanBy(v, dx, dy)
    ELSE immediatePanBy(v, dx, dy)

panTo(v, worldX, worldY, animate) ==
    LET targetScreenX == Times(Neg(worldX), v.viewport.zoom)
        targetScreenY == Times(Neg(worldY), v.viewport.zoom)
    IN  IF animate /\ v.config.animation.enabled
        THEN LET startViewport == v.viewport
                 targetViewport ==
                     [ startViewport EXCEPT
                         !.screenX = targetScreenX, !.screenY = targetScreenY,
                         !.worldX = worldX, !.worldY = worldY,
                         !.visibleBounds =
                             calculateVisibleBounds(v, worldX, worldY, v.viewport.zoom) ]
             IN  startAnimation(v, Animation("pan", startViewport, targetViewport,
                                             FALSE, NaN, FALSE))
        ELSE emitViewportChange(
                 updateViewportFromWorldGroup(
                     [ v EXCEPT !.worldGroup.x = targetScreenX,
                                !.worldGroup.y = targetScreenY ]),
                 "programmatic")

immediateFitToBounds(v, centerX, centerY, targetZoom) ==
    LET oldZoom == v.viewport.zoom
        v1 == [ v EXCEPT !.worldGroup.scale = targetZoom, !.viewport.zoom = targetZoom ]
        targetWorldX == Minus(centerX, Over(v1.viewport.screenWidth, Times(Num(2), targetZoom)))
        targetWorldY == Minus(centerY, Over(v1.viewport.screenHeight, Times(Num(2), targetZoom)))
        v2 == [ v1 EXCEPT !.worldGroup.x = Times(Neg(targetWorldX), targetZoom),
                          !.worldGroup.y = Times(Neg(targetWorldY), targetZoom) ]
        v3 == updateViewportFromWorldGroup(v2)
    IN  emitViewportChange(emitZoomEvent(v3, "zoom", oldZoom, targetZoom), "programmatic")

animateFitToBounds(v, centerX, centerY, targetZoom) ==
    LET startViewport == v.viewport
        targetWorldX == Minus(centerX, Over(v.viewport.screenWidth, Times(Num(2), targetZoom)))
        targetWorldY == Minus(centerY, Over(v.viewport.screenHeight, Times(Num(2), targetZoom)))
        targetViewport ==
            [ startViewport EXCEPT
                !.zoom = targetZoom,
                !.screenX = Times(Neg(targetWorldX), targetZoom),
                !.screenY = Times(Neg(targetWorldY), targetZoom),
                !.worldX = targetWorldX, !.worldY = targetWorldY,
                !.visibleBounds = calculateVisibleBounds(v, targetWorldX, targetWorldY,
                                                         targetZoom) ]
    IN  startAnimation(v, Animation("both", startViewport, targetViewport, TRUE,
                                    startViewport.zoom, FALSE))

fitToBounds(v, bounds, padding, animate) ==
    LET scaleX == Over(Minus(v.viewport.screenWidth, Times(padding, Num(2))), bounds.width)
        scaleY == Over(Minus(v.viewport.screenHeight, Times(padding, Num(2))), bounds.height)
        targetZoom == MathMin({ scaleX, scaleY, v.config.maxZoom })
        centerX == Plus(bounds.x, Over(bounds.width, Num(2)))
        centerY == Plus(bounds.y, Over(bounds.height, Num(2)))
    IN  IF animate /\ v.config.animation.enabled
        THEN animateFitToBounds(v, centerX, centerY, targetZoom)
        ELSE immediateFitToBounds(v, centerX, centerY, targetZoom)

resetView(v, animate) ==
    LET v1 == panTo(v, Num(0), Num(0), animate)
    IN  zoomToCenter(v1, Minus(v1.config.defaultZoom, v1.viewport.zoom), animate)

\* { ...this.viewport, ...viewport }: the fields of partial replace those of
\* this.viewport
Merge(base, partial) ==
    [ k \in DOMAIN base |-> IF k \in DOMAIN partial THEN partial[k] ELSE base[k] ]

\* a plausible slip: the zoom of the partial viewport is not clamped
setViewport_NoClamp(v, partial, animate) ==
    LET targetViewport == Merge(v.viewport, partial)
    IN  IF animate /\ v.config.animation.enabled
        THEN startAnimation(v, Animation("both", v.viewport, targetViewport, FALSE, NaN, TRUE))
        ELSE applyViewport(v, targetViewport)

setViewport(v, partial, animate) ==
    LET merged == Merge(v.viewport, partial)
        targetViewport == IF "zoom" \in DOMAIN partial
                          THEN [ merged EXCEPT !.zoom = clampZoom(v, partial.zoom) ]
                          ELSE merged
    IN  IF animate /\ v.config.animation.enabled
        THEN startAnimation(v, Animation("both", v.viewport, targetViewport, FALSE, NaN, TRUE))
        ELSE applyViewport(v, targetViewport)

updateConfig(v, partial) ==
    LET v1 == [ v EXCEPT !.config = Merge(v.config, partial) ]
    IN  IF "defaultZoom" \in DOMAIN partial
        THEN LET zoom == clampZoom(v1, partial.defaultZoom)
             IN  [ v1 EXCEPT !.viewport.zoom = zoom, !.worldGroup.scale = zoom ]
        ELSE v1

handleResize(v, size) ==
    LET v1 == [ v EXCEPT !.viewport.screenWidth = size.width,
                         !.viewport.screenHeight = size.height ]
        v2 == [ v1 EXCEPT !.viewport.visibleBounds =
                  calculateVisibleBounds(v1, v1.viewport.worldX, v1.viewport.worldY,
                                         v1.viewport.zoom) ]
    IN  emitViewportChange(v2, "programmatic")

\* the requestAnimationFrame callback of startAnimationLoop (no drag has
\* started an inertial scroll: updateInertia returns at once)
animationFrame(v, progress) == updateAnimation(v, progress)

----------------------------------------------------------------------------
(* PerformanceOptimizer (performance/PerformanceOptimizer.ts): the level of  *)
(* detail.  The optimizer's state is a record o with the tier table         *)
(* lodLevels of its config and its lodState; a tier's index is the array    *)
(* index of the code (from 0), objects are given by their number.           *)

\* the lodLevels of the constructor's default config
DefaultLodLevels ==
    << [ zoomThreshold |-> Frac(1, 10), simplifyFactor |-> Frac(1, 10), opacity |-> Frac(1, 2) ],
       [ zoomThreshold |-> Frac(3, 10), simplifyFactor |-> Frac(3, 10), opacity |-> Frac(7, 10) ],
       [ zoomThreshold |-> Frac(3, 5),  simplifyFactor |-> Frac(3, 5),  opacity |-> Frac(9, 10) ],
       [ zoomThreshold |-> Num(1),      simplifyFactor |-> Num(1),      opacity |-> Num(1) ] >>

\* the first i with zoom >= lodLevels[i].zoomThreshold, the last index when
\* there is none
getLODLevelForZoom(o, zoom) ==
    LET hits == { i \in 1..Len(o.lodLevels) : ~Less(zoom, o.lodLevels[i].zoomThreshold)
                                              /\ zoom # NaN }
    IN  IF hits = {} THEN Len(o.lodLevels) - 1
        ELSE (CHOOSE i \in hits : \A j \in hits : i <= j) - 1

\* the number of objects simplifyObjects returns:
\* Math.max(1, Math.floor(objects.length * simplifyFactor))
simplifyObjects(objectCount, simplifyFactor) ==
    IF ~Less(simplifyFactor, Num(1)) THEN objectCount
    ELSE LET product == Times(Num(objectCount), simplifyFactor)
             floor   == product[1] \div product[2]
         IN  IF floor < 1 THEN 1 ELSE floor

\* applyLODOptimization (lodEnabled is on): the lodState it leaves
applyLODOptimization(o, zoom, objectCount) ==
    LET lodLevel == getLODLevelForZoom(o, zoom)
        o1 == [ o EXCEPT !.lodState.zoom = zoom,
                         !.lodState.visibleObjects = objectCount,
                         !.lodState.currentLevel = lodLevel ]
    IN  IF lodLevel < Len(o.lodLevels) - 1
        THEN LET simplified == simplifyObjects(objectCount,
                                               o.lodLevels[lodLevel + 1].simplifyFactor)
             IN  [ o1 EXCEPT !.lodState.simplifiedObjects = simplified,
                             !.lodState.reductionRate =
                                 Over(Num(objectCount - simplified), Num(objectCount)) ]
        ELSE [ o1 EXCEPT !.lodState.simplifiedObjects = 0,
                         !.lodState.reductionRate = Num(0) ]

\* the optimizer's state at the start of a call
Optimizer == [ lodLevels |-> lodLevels, lodState |-> lodState ]

\* the lodState of the constructor, for the tier table of the config
InitOptimizer(levels) ==
    /\ lodLevels = levels
    /\ lodState  = [ currentLevel |-> 3, zoom |-> Num(1), visibleObjects |-> 0,
                     simplifiedObjects |-> 0, reductionRate |-> Num(0) ]

----------------------------------------------------------------------------
(***************************************************************************)
(* InfiniteCanvas (canvas/InfiniteCanvas.ts): chunk loading of the virtual  *)
(* viewport.  A chunk object is [id, serial, loaded, rendering]; serial     *)
(* tells objects of the same id apart, since loadChunks keeps the object it *)
(* created across its await.                                                *)
(***************************************************************************)

\* chunkSize 2000 and no preload margin (config.preloadRadius 0)
CanvasConfig == [ chunkSize |-> 2000, preloadRadius |-> 0 ]

\* the view after the world group was dragged by k chunk sizes: it spans the
\* chunk columns k and k + 1 of row 0
CanvasViewportAt(k) ==
    [ visibleBounds |-> [ minX |-> k * CanvasConfig.chunkSize,
                          minY |-> 0,
                          maxX |-> k * CanvasConfig.chunkSize + CanvasConfig.chunkSize,
                          maxY |-> CanvasConfig.chunkSize \div 2 ] ]

\* InfiniteCanvas.getVisibleChunkIds: the cells of the visible bounds widened
\* by chunkSize * preloadRadius, both ends rounded down
canvasVisibleChunkIds(vp) ==
    LET bounds == vp.visibleBounds
        margin == CanvasConfig.chunkSize * CanvasConfig.preloadRadius
        size   == CanvasConfig.chunkSize
    IN  GridIds(FloorDiv(bounds.minX - margin, size), FloorDiv(bounds.maxX + margin, size),
                FloorDiv(bounds.minY - margin, size), FloorDiv(bounds.maxY + margin, size))

\* the canvas' state as one record
Canvas ==
    [ chunks      |-> icChunks,
      chunkLayers |-> icChunkLayers,
      renderQueue |-> icRenderQueue,
      isRendering |-> icIsRendering,
      loads       |-> icLoads,
      viewport    |-> icViewport,
      created     |-> icCreated ]

canvasHas(c, chunkId) == \E chunk \in c.chunks : chunk.id = chunkId

\* scheduleRender: the first renderNext frame is requested unless one is
\* already pending
scheduleRender(c) ==
    IF c.isRendering \/ Len(c.renderQueue) = 0 THEN c
    ELSE [ c EXCEPT !.isRendering = TRUE ]

\* InfiniteCanvas.unloadChunks, chunkIds being a set: what the forEach does
\* for one id does not depend on the others
canvasUnloadChunks(c, chunkIds) ==
    LET removed == { id \in chunkIds : canvasHas(c, id) }
    IN  [ c EXCEPT !.chunkLayers = @ \ removed,
                   !.renderQueue = SelectSeq(@, LAMBDA chunk : chunk.id \notin removed),
                   !.chunks      = { chunk \in @ : chunk.id \notin removed } ]

\* the map callback of loadChunks up to its await: the record is created and
\* loadChunkData is called
canvasLoadChunk(c, chunkId) ==
    IF canvasHas(c, chunkId) THEN c
    ELSE LET chunk == [ id |-> chunkId, serial |-> c.created + 1,
                        loaded |-> FALSE, rendering |-> FALSE ]
         IN  [ c EXCEPT !.chunks  = @ \cup {chunk},
                        !.loads   = @ \cup {chunk},
                        !.created = @ + 1 ]

RECURSIVE canvasLoadChunks(_, _)
canvasLoadChunks(c, chunkIds) ==
    IF chunkIds = <<>> THEN c
    ELSE canvasLoadChunks(canvasLoadChunk(c, Head(chunkIds)), Tail(chunkIds))

\* updateVisibleChunks up to the await of loadChunks (what follows only
\* writes lastAccess)
updateVisibleChunks(c, vp) ==
    LET c1 == [ c EXCEPT !.viewport = vp ]
        visibleChunkIds == canvasVisibleChunkIds(vp)
        currentChunkIds == { chunk.id : chunk \in c1.chunks }
        chunksToRemove  == { id \in currentChunkIds : id \notin Range(visibleChunkIds) }
        chunksToLoad    == SelectSeq(visibleChunkIds, LAMBDA id : id \notin currentChunkIds)
    IN  canvasLoadChunks(canvasUnloadChunks(c1, chunksToRemove), chunksToLoad)

\* the map callback of loadChunks after loadChunkData has resolved: the
\* object the callback created is marked loaded and pushed
canvasLoadResolved(c, chunk) ==
    LET loaded == [ chunk EXCEPT !.loaded = TRUE ]
    IN  scheduleRender(
            [ c EXCEPT !.loads       = @ \ {chunk},
                       !.chunks      = (@ \ {chunk}) \cup (IF chunk \in @ THEN {loaded} ELSE {}),
                       !.renderQueue = Append(@, loaded) ])

\* InfiniteCanvas.renderChunk (createKonvaNode returns null for a type it has
\* no case for, so nothing throws)
canvasRenderChunk(c, chunk) ==
    IF chunk.rendering \/ ~chunk.loaded THEN c
    ELSE [ c EXCEPT !.chunkLayers = @ \cup {chunk.id} ]

RECURSIVE canvasRenderEach(_, _)
canvasRenderEach(c, batch) ==
    IF batch = <<>> THEN c
    ELSE canvasRenderEach(canvasRenderChunk(c, Head(batch)), Tail(batch))

\* the requestAnimationFrame callback renderNext: at most 3 chunks a frame
renderNext(c) ==
    LET n  == Min2(3, Len(c.renderQueue))
        c1 == canvasRenderEach([ c EXCEPT !.renderQueue = SubSeq(@, n + 1, Len(@)) ],
                               SubSeq(c.renderQueue, 1, n))
    IN  IF Len(c1.renderQueue) > 0 THEN c1
        ELSE [ c1 EXCEPT !.isRendering = FALSE ]

\* the fields as the constructor is written to leave them.  (As the file
\* stands, line 82 calls calculateVisibleBounds inside the literal that is
\* being assigned to this.viewport, which reads this.viewport.)
InitCanvas ==
    /\ icChunks      = {}
    /\ icChunkLayers = {}
    /\ icRenderQueue = <<>>
    /\ icIsRendering = FALSE
    /\ icLoads       = {}
    /\ icViewport    = CanvasViewportAt(0)
    /\ icCreated     = 0

----------------------------------------------------------------------------
(* UndoRedoManager (InfiniteKonva/types/data-source.ts).  The manager's     *)
(* state is a record u: history (indices from 1, so the record at the code's *)
(* index i is history[i + 1]), currentIndex (the code's value, -1 when       *)
(* nothing is applied), the undo() and redo() calls suspended at their      *)
(* await, the number of operation ids handed out and the clock of           *)
(* Date.now() in milliseconds.  A record keeps the position of its data and *)
(* of its previousData as a set (empty: none) and metadata.mergeCount as a  *)
(* number (0: never set; `undefined || 1` and `undefined >= n` give what 0  *)
(* gives).                                                                  *)

UndoRedoConfig ==
    [ enabled |-> TRUE, maxHistorySize |-> 1000, compressHistory |-> TRUE,
      groupSimilarOps |-> TRUE, groupTimeout |-> 1000 ]

\* type.includes("object")
IncludesObject(type) ==
    type \in { "create-object", "update-object", "delete-object", "move-object",
               "resize-object", "rotate-object" }

\* the first grouping rule of setupGroupingRules whose predicate holds for
\* (op1, op2), tried in the order they were pushed; 0 when none does.  No
\* record carries metadata.selection, so the two JSON strings are equal.
\* A rule with maxGroupSize that op1 has filled is passed over.
GroupingRule(op1, op2) ==
    LET single == Len(op1.targetIds) = 1 /\ Len(op2.targetIds) = 1
                  /\ op1.targetIds[1] = op2.targetIds[1]
        apart  == Abs(op1.timestamp - op2.timestamp)
        move   == /\ op1.type = "move-object" /\ op2.type = "move-object"
                  /\ single /\ apart < UndoRedoConfig.groupTimeout
        filled == op1.mergeCount >= 10
        style  == /\ op1.type = "change-style" /\ op2.type = "change-style"
                  /\ single /\ apart < UndoRedoConfig.groupTimeout
        batch  == /\ op1.type = op2.type /\ IncludesObject(op1.type)
                  /\ apart < 500
    IN  IF move /\ ~filled THEN 1
        ELSE IF style THEN 2
        ELSE IF batch THEN 3
        ELSE 0

\* [...new Set([...a, ...b])]
Union(a, b) == a \o SelectSeq(b, LAMBDA t : t \notin Range(a))

\* tryGroupOperations: the merge of the first rule that applies, or Null
tryGroupOperations(op1, op2) ==
    LET rule == GroupingRule(op1, op2)
    IN  IF rule = 1
        THEN [ op2 EXCEPT !.previous = op1.previous,
                          !.mergeCount = (IF op1.mergeCount = 0 THEN 1
                                          ELSE op1.mergeCount) + 1 ]
        ELSE IF rule = 2
        THEN [ op2 EXCEPT !.previous = op1.previous ]
        ELSE IF rule = 3
        THEN [ id |-> << "batch", op2.timestamp >>, type |-> "batch",
               timestamp |-> op2.timestamp,
               targetIds |-> Union(op1.targetIds, op2.targetIds),
               position |-> {}, previous |-> {},
               operations |-> << op1, op2 >>, mergeCount |-> 0,
               status |-> "applied" ]
        ELSE Null

\* a create followed by the delete of the same object, or two moves of one
\* object that end where the first began
canCompressOperations(op1, op2) ==
    /\ Len(op1.targetIds) = 1 /\ Len(op2.targetIds) = 1
    /\ op1.targetIds[1] = op2.targetIds[1]
    /\ \/ op1.type = "create-object" /\ op2.type = "delete-object"
       \/ /\ op1.type = "move-object" /\ op2.type = "move-object"
          /\ op1.position # {} /\ op2.position # {}
          /\ op1.previous # {}
          /\ op2.position = op1.previous

compressOperations(op1, op2, time) ==
    [ id |-> << "compressed", time >>, type |-> "batch", timestamp |-> op2.timestamp,
      targetIds |-> Union(op1.targetIds, op2.targetIds),
      position |-> {}, previous |-> {},
      operations |-> << op1, op2 >>, mergeCount |-> 0, status |-> "applied" ]

\* the while loop of compressHistory from index i (from 1)
RECURSIVE Compressed(_, _, _)
Compressed(h, i, time) ==
    IF i > Len(h) THEN <<>>
    ELSE IF i < Len(h) /\ canCompressOperations(h[i], h[i + 1])
         THEN << compressOperations(h[i], h[i + 1], time) >> \o Compressed(h, i + 2, time)
         ELSE << h[i] >> \o Compressed(h, i + 1, time)

compressHistory(u) ==
    IF Len(u.history) < 2 THEN u
    ELSE LET compressed == Compressed(u.history, 1, u.now)
         IN  IF Len(compressed) < Len(u.history)
             THEN [ u EXCEPT !.history = compressed,
                             !.currentIndex = Len(compressed) - 1 ]
             ELSE u

\* h.slice(0, end): a negative end counts from the end of the array
SliceTo(h, end) ==
    SubSeq(h, 1, IF end < 0 THEN Len(h) + end ELSE Min2(end, Len(h)))

addToHistory(u, record) ==
    LET kept == IF u.currentIndex < Len(u.history) - 1
                THEN SliceTo(u.history, u.currentIndex + 1)
                ELSE u.history
        u1 == [ u EXCEPT !.history = Append(kept, record),
                         !.currentIndex = Len(kept) ]
        u2 == IF UndoRedoConfig.compressHistory THEN compressHistory(u1) ELSE u1
    IN  IF Len(u2.history) > UndoRedoConfig.maxHistorySize
        THEN [ u2 EXCEPT
                 !.history = SubSeq(@, Len(@) - UndoRedoConfig.maxHistorySize + 1, Len(@)),
                 !.currentIndex = UndoRedoConfig.maxHistorySize - 1 ]
        ELSE u2

\* recordOperation(type, [target], { position }, { position: previous })
recordOperation(u, type, target, position, previous) ==
    LET record == [ id |-> << "op", u.created + 1 >>, type |-> type,
                    timestamp |-> u.now, targetIds |-> << target >>,
                    position |-> position, previous |-> previous,
                    operations |-> <<>>, mergeCount |-> 0,
                    status |-> "applied" ]
        u1 == [ u EXCEPT !.created = @ + 1 ]
        grouping == UndoRedoConfig.groupSimilarOps /\ u.currentIndex >= 0
        grouped == IF grouping
                   THEN tryGroupOperations(u.history[u.currentIndex + 1], record)
                   ELSE Null
    IN  IF ~UndoRedoConfig.enabled THEN u
        \* history[currentIndex] is undefined: the rule's predicate throws
        ELSE IF grouping /\ u.currentIndex + 1 > Len(u.history) THEN u1
        ELSE IF grouped # Null
             THEN [ u1 EXCEPT !.history[u.currentIndex + 1] = grouped ]
             ELSE addToHistory(u1, record)

canUndo(u) == UndoRedoConfig.enabled /\ u.currentIndex >= 0

canRedo(u) == UndoRedoConfig.enabled /\ u.currentIndex < Len(u.history) - 1

\* the awaits a call goes through before it continues: one per operation
Awaits(record) == IF record.type = "batch" THEN Len(record.operations) ELSE 1

\* undo() up to its await: the record at currentIndex is taken and the
\* reverting operation is handed to the listeners.  When the history has no
\* record there, record.type throws and the catch block returns null.
undo(u) ==
    IF ~canUndo(u) \/ u.currentIndex + 1 > Len(u.history) THEN u
    ELSE [ u EXCEPT !.calls = Append(@, [ kind |-> "undo",
                                           record |-> u.history[u.currentIndex + 1],
                                           nextIndex |-> -1 ]) ]

\* redo() up to its await
redo(u) ==
    IF ~canRedo(u) \/ u.currentIndex + 2 < 1 THEN u
    ELSE [ u EXCEPT !.calls = Append(@, [ kind |-> "redo",
                                           record |-> u.history[u.currentIndex + 2],
                                           nextIndex |-> u.currentIndex + 1 ]) ]

\* record.status = status, written to the record object the call holds: seen
\* in the history when the object is still there
Same(a, b) == a.id = b.id /\ Len(a.operations) = Len(b.operations)

Marked(h, record, status) ==
    [ i \in 1..Len(h) |->
        IF Same(h[i], record) THEN [ h[i] EXCEPT !.status = status ]
        ELSE LET members == h[i].operations
             IN  [ h[i] EXCEPT !.operations =
                     [ k \in 1..Len(members) |->
                         IF Same(members[k], record)
                         THEN [ members[k] EXCEPT !.status = status ]
                         ELSE members[k] ] ] ]

\* undo() after its await: status, then this.currentIndex--
undoResumed(u, n) ==
    LET call == u.calls[n]
        rest == SubSeq(u.calls, 1, n - 1) \o SubSeq(u.calls, n + 1, Len(u.calls))
    IN  [ u EXCEPT !.history = Marked(@, call.record, "undone"),
                   !.currentIndex = @ - 1,
                   !.calls = rest ]

\* redo() after its await: status, then this.currentIndex = nextIndex
redoResumed(u, n) ==
    LET call == u.calls[n]
        rest == SubSeq(u.calls, 1, n - 1) \o SubSeq(u.calls, n + 1, Len(u.calls))
    IN  [ u EXCEPT !.history = Marked(@, call.record, "redone"),
                   !.currentIndex = call.nextIndex,
                   !.calls = rest ]

\* the suspended call that continues next: promise continuations run in the
\* order of their awaits, so the call with the fewest awaits, and among those
\* the one made first
NextCall(u) ==
    CHOOSE n \in 1..Len(u.calls) :
        \A m \in 1..Len(u.calls) :
            \/ Awaits(u.calls[n].record) < Awaits(u.calls[m].record)
            \/ Awaits(u.calls[n].record) = Awaits(u.calls[m].record) /\ n <= m

InitUndoRedo ==
    /\ history       = <<>>
    /\ currentIndex  = -1
    /\ undoRedoCalls = <<>>
    /\ operationIds  = 0
    /\ clock         = 0

----------------------------------------------------------------------------
(* HybridDataSource (InfiniteKonva/types/data-source.ts): the sync queue.   *)
(* The source's state is a record d: syncQueue, isSyncing, the startSync    *)
(* calls suspended at a remote call (passes), the operations the remote     *)
(* source has taken (sent) and the number of operations created.  The       *)
(* config is the constructor's default: syncEnabled and autoSync, so        *)
(* remoteSource is set.                                                     *)

HybridConfig == [ syncEnabled |-> TRUE, autoSync |-> TRUE ]

\* startSync up to its first await: the queue is copied and emptied, and the
\* remote call of the first operation is issued
startSync(d) ==
    IF d.isSyncing \/ ~HybridConfig.syncEnabled \/ Len(d.syncQueue) = 0 THEN d
    ELSE [ d EXCEPT !.isSyncing = TRUE,
                    !.passes = Append(@, d.syncQueue),
                    !.syncQueue = <<>> ]

queueForSync(d, operation) ==
    LET d1 == [ d EXCEPT !.syncQueue = Append(@, operation) ]
    IN  IF HybridConfig.autoSync /\ ~d1.isSyncing THEN startSync(d1) ELSE d1

\* createObject, updateObject and deleteObject after the local source has
\* succeeded
localOperation(d, type) ==
    LET operation == [ id |-> d.created + 1, type |-> type ]
        d1 == [ d EXCEPT !.created = @ + 1 ]
    IN  IF HybridConfig.syncEnabled THEN queueForSync(d1, operation) ELSE d1

\* startSync from the settling of the remote call of pass n: a failed
\* operation goes back to the queue, the loop goes on with the next operation,
\* and after the last one the finally block resets isSyncing
remoteSettled(d, n, ok) ==
    LET remaining  == d.passes[n]
        operation  == Head(remaining)
        d1 == IF ok THEN [ d EXCEPT !.sent = @ \cup { operation } ]
              ELSE [ d EXCEPT !.syncQueue = Append(@, operation) ]
        others == SubSeq(d.passes, 1, n - 1) \o SubSeq(d.passes, n + 1, Len(d.passes))
    IN  IF Len(remaining) > 1
        THEN [ d1 EXCEPT !.passes[n] = Tail(remaining) ]
        ELSE [ d1 EXCEPT !.passes = others, !.isSyncing = FALSE ]

InitHybrid ==
    /\ syncQueue       = <<>>
    /\ isSyncing       = FALSE
    /\ syncPasses      = <<>>
    /\ remoteSent      = {}
    /\ localOperations = 0

----------------------------------------------------------------------------
(* The classes beside the engine, the viewport and the optimizer, as their *)
(* constructors leave them                                                  *)

InitCollaborators == InitCanvas /\ InitUndoRedo /\ InitHybrid

----------------------------------------------------------------------------
(* State machine *)

\* the viewport after k pans to the right: half a chunk wide and high, one
\* chunk further each time
ViewportAt(k) ==
    LET left == k * config.chunkSize
        half == config.chunkSize \div 2
    IN  [ visibleBounds |-> [ minX |-> left, minY |-> 0,
                              maxX |-> left + half, maxY |-> half ] ]

PanPositions == {0, 1}

InitialViewport ==
    [ visibleBounds |-> [ minX |-> 0, minY |-> 0, maxX |-> 0, maxY |-> 0 ] ]

\* the state a handler starts from: Date.now() is later than every recorded
\* access time
Current ==
    [ chunks         |-> chunks,
      chunkLayers    |-> chunkLayers,
      chunkDataCache |-> chunkDataCache,
      loadQueue      |-> loadQueue,
      activeLoads    |-> activeLoads,
      renderQueue    |-> renderQueue,
      isRendering    |-> isRendering,
      renderTimer    |-> renderTimer,
      fetches        |-> fetches,
      viewport       |-> viewport,
      stats          |-> stats,
      emitted        |-> {},
      now            |-> Max({ chunks[i].lastAccessTime : i \in 1..Len(chunks) } \cup {0}) + 1,
      threw          |-> FALSE ]

\* lastAccessTime is only compared, and only by cleanupCache for chunks whose
\* payload is cached (onChunkDataLoaded sets it anew when a payload is
\* stored): the times of cached chunks are kept as their ranks, the others
\* as 0
Ranked(cs, cache) ==
    LET cached(i) == cs[i].id \in Range(cache)
        times == { cs[i].lastAccessTime : i \in { j \in 1..Len(cs) : cached(j) } }
    IN  [ i \in 1..Len(cs) |->
            [ cs[i] EXCEPT !.lastAccessTime =
                IF cached(i)
                THEN Cardinality({ u \in times : u <= cs[i].lastAccessTime })
                ELSE 0 ] ]

\* the payloads the handler stored (chunkDataCache.set in loadChunk) or handed
\* to onChunkDataLoaded were accessed now, later than every other payload;
\* the moments are kept as their ranks
Accessed(s) ==
    LET touched == { id \in Range(s.chunkDataCache) :
                       \/ id \notin Range(chunkDataCache)
                       \/ <<"chunk-loaded", id>> \in s.emitted }
        old(id) == cacheAccess[CHOOSE i \in 1..Len(chunkDataCache) : chunkDataCache[i] = id]
        top     == Len(chunkDataCache) + 1
        time(id) == IF id \in touched THEN top ELSE old(id)
        times   == { time(id) : id \in Range(s.chunkDataCache) }
    IN  [ i \in 1..Len(s.chunkDataCache) |->
            Cardinality({ u \in times : u <= time(s.chunkDataCache[i]) }) ]

Becomes(s) ==
    /\ chunks'         = Ranked(s.chunks, s.chunkDataCache)
    /\ cacheAccess'    = Accessed(s)
    /\ chunkLayers'    = s.chunkLayers
    /\ chunkDataCache' = s.chunkDataCache
    /\ loadQueue'      = s.loadQueue
    /\ activeLoads'    = s.activeLoads
    /\ renderQueue'    = s.renderQueue
    /\ isRendering'    = s.isRendering
    /\ renderTimer'    = s.renderTimer
    /\ fetches'        = s.fetches
    /\ viewport'       = s.viewport
    /\ stats'          = s.stats
    /\ config'         = config
    /\ UNCHANGED <<calculated, managerVars, optimizerVars, handlerVars, collaboratorVars>>

InitEngineWith(configuration) ==
    /\ chunks         = <<>>
    /\ chunkLayers    = {}
    /\ chunkDataCache = <<>>
    /\ cacheAccess    = <<>>
    /\ loadQueue      = <<>>
    /\ activeLoads    = {}
    /\ renderQueue    = <<>>
    /\ isRendering    = FALSE
    /\ renderTimer    = <<>>
    /\ fetches        = {}
    /\ config         = configuration
    /\ viewport       = InitialViewport
    /\ updates        = 0
    /\ stats          = InitialStats
    /\ calculated     = Null

InitEngine == InitEngineWith(EngineConfig)

\* the manager as its constructor leaves it, for a configuration
Constructed(configuration) ==
    LET v0 == [ viewport |-> FieldViewport, config |-> configuration ]
        initial == createInitialViewport(v0)
    IN  [ viewport        |-> initial,
          config          |-> configuration,
          worldGroup      |-> [ x |-> Num(0), y |-> Num(0), scale |-> initial.zoom ],
          animation       |-> Null,
          updateScheduled |-> FALSE,
          timers          |-> 0 ]

InitManager(configuration) ==
    /\ vmViewport      = Constructed(configuration).viewport
    /\ vmConfig        = Constructed(configuration).config
    /\ worldGroup      = Constructed(configuration).worldGroup
    /\ vmAnimation     = Null
    /\ updateScheduled = FALSE
    /\ throttleTimers  = 0
    /\ operations      = 0

Init ==
    /\ InitEngine
    /\ InitManager(DefaultViewportConfig)
    /\ InitOptimizer(DefaultLodLevels)
    /\ received = Discarded
    /\ InitCollaborators

UpdateViewport ==
    /\ updates < MaxUpdates
    /\ \E k \in PanPositions : Becomes(updateViewport(Current, ViewportAt(k)))
    /\ updates' = updates + 1

Frame == Becomes(queueProcessingFrame(Current)) /\ UNCHANGED updates

FetchResolved ==
    /\ \E f \in fetches : Becomes(loadChunkResolved(Current, f))
    /\ UNCHANGED updates

FetchRejected ==
    /\ \E f \in fetches : CanFail(f.chunkId) /\ Becomes(loadChunkRejected(Current, f))
    /\ UNCHANGED updates

RenderTimeout ==
    /\ renderTimer # <<>>
    /\ Becomes(renderTimeout(Current))
    /\ UNCHANGED updates

Next ==
    \/ UpdateViewport
    \/ Frame
    \/ FetchResolved
    \/ FetchRejected
    \/ RenderTimeout

Spec == Init /\ [][Next]_vars

ChunkIds == { chunks[i].id : i \in 1..Len(chunks) }

StatusOf(chunkId) ==
    (chunks[CHOOSE i \in 1..Len(chunks) : chunks[i].id = chunkId]).status

QueuedIds(q) == { q[i].chunkId : i \in 1..Len(q) }

FetchingIds == { f.chunkId : f \in fetches }

----------------------------------------------------------------------------
(* State machine of the viewport *)

\* the manager's state at the start of an operation; due tells whether
\* throttleInterval has passed since the last throttled notification
Manager(due) ==
    [ viewport        |-> vmViewport,
      config          |-> vmConfig,
      worldGroup      |-> worldGroup,
      animation       |-> vmAnimation,
      updateScheduled |-> updateScheduled,
      timers          |-> throttleTimers,
      due             |-> due,
      replaced        |-> FALSE,
      events          |-> <<>> ]

\* what a handler that keeps the last viewport-change payload holds after an
\* operation: delivered are the payload's fields as they were handed over,
\* viewport as they are now.  A payload that is the object this.viewport
\* itself follows the writes to its fields until this.viewport is assigned
\* another object
Receives(v) ==
    LET changes == SelectSeq(v.events, LAMBDA e : e.type = "viewport-change")
    IN  IF received = Discarded THEN received
        ELSE IF changes # <<>>
             THEN LET e == changes[Len(changes)]
                  IN  [ type |-> "viewport-change", delivered |-> e.viewport,
                        viewport |-> IF e.live THEN v.viewport ELSE e.viewport,
                        live |-> e.live ]
             ELSE IF received # Null /\ received.live
                  THEN IF v.replaced THEN [ received EXCEPT !.live = FALSE ]
                       ELSE [ received EXCEPT !.viewport = v.viewport ]
                  ELSE received

ManagerBecomes(v) ==
    /\ v.timers <= MaxTimers
    /\ vmViewport'      = v.viewport
    /\ vmConfig'        = v.config
    /\ worldGroup'      = v.worldGroup
    /\ vmAnimation'     = v.animation
    /\ updateScheduled' = v.updateScheduled
    /\ throttleTimers'  = v.timers
    /\ received' = Receives(v)
    /\ UNCHANGED <<engineVars, optimizerVars, collaboratorVars>>

\* the arguments the operations are called with
ScreenPoints == { [ x |-> Num(0), y |-> Num(0) ], [ x |-> Num(4), y |-> Num(1) ] }
DeltaZooms   == { Num(1), Frac(-1, 2), Num(40) }
PanDeltas    == { [ x |-> Num(2), y |-> Num(-1) ] }
PanTargets   == { [ x |-> Num(-5), y |-> Num(2) ] }
FitBounds    ==
    { [ x |-> Num(0), y |-> Num(0), width |-> Num(3), height |-> Num(2) ],
      [ x |-> Num(0), y |-> Num(0), width |-> Num(120), height |-> Num(80) ] }
FitPadding   == Num(1)
PartialViewports == { [ zoom |-> Num(40) ], [ screenX |-> Num(1) ] }
PartialConfigs   == { [ defaultZoom |-> Num(40) ], [ zoomStep |-> Frac(1, 2) ] }
Progresses   == { Frac(1, 2), Num(1) }

\* one call of a public operation
Called == operations < MaxOperations /\ operations' = operations + 1

ZoomToPoint ==
    /\ Called
    /\ \E point \in ScreenPoints, deltaZoom \in DeltaZooms, animate \in BOOLEAN, due \in BOOLEAN :
          ManagerBecomes(zoomToPoint(Manager(due), point, deltaZoom, animate))

ZoomToCenter ==
    /\ Called
    /\ \E deltaZoom \in DeltaZooms, animate \in BOOLEAN, due \in BOOLEAN :
          ManagerBecomes(zoomToCenter(Manager(due), deltaZoom, animate))

PanBy ==
    /\ Called
    /\ \E d \in PanDeltas, animate \in BOOLEAN, due \in BOOLEAN :
          ManagerBecomes(panBy(Manager(due), d.x, d.y, animate))

PanTo ==
    /\ Called
    /\ \E w \in PanTargets, animate \in BOOLEAN, due \in BOOLEAN :
          ManagerBecomes(panTo(Manager(due), w.x, w.y, animate))

FitToBounds ==
    /\ Called
    /\ \E bounds \in FitBounds, animate \in BOOLEAN, due \in BOOLEAN :
          ManagerBecomes(fitToBounds(Manager(due), bounds, FitPadding, animate))

ResetView ==
    /\ Called
    /\ \E animate \in BOOLEAN, due \in BOOLEAN :
          ManagerBecomes(resetView(Manager(due), animate))

SetViewport ==
    /\ Called
    /\ \E partial \in PartialViewports, animate \in BOOLEAN, due \in BOOLEAN :
          ManagerBecomes(setViewport(Manager(due), partial, animate))

UpdateConfig ==
    /\ Called
    /\ \E partial \in PartialConfigs :
          ManagerBecomes(updateConfig(Manager(FALSE), partial))

Resize ==
    /\ Called
    /\ ManagerBecomes(handleResize(Manager(FALSE), ResizedSize))

AnimationFrame ==
    /\ vmAnimation # Null
    /\ \E progress \in Progresses, due \in BOOLEAN :
          ManagerBecomes(animationFrame(Manager(due), progress))
    /\ UNCHANGED operations

ThrottleTimeout ==
    /\ throttleTimers > 0
    /\ ManagerBecomes(throttleTimeout(Manager(FALSE)))
    /\ UNCHANGED operations

NextViewport ==
    \/ ZoomToPoint
    \/ ZoomToCenter
    \/ PanBy
    \/ PanTo
    \/ FitToBounds
    \/ ResetView
    \/ SetViewport
    \/ UpdateConfig
    \/ Resize
    \/ AnimationFrame
    \/ ThrottleTimeout

InitViewport ==
    /\ InitEngine
    /\ \E configuration \in { DefaultViewportConfig, ConstrainedViewportConfig } :
          InitManager(configuration)
    /\ InitOptimizer(DefaultLodLevels)
    /\ received = Discarded
    /\ InitCollaborators

\* the public operations of ViewportManager, its animation frames and its
\* throttle timer
SpecViewport == InitViewport /\ [][NextViewport]_vars

----------------------------------------------------------------------------
(* State machine of the level of detail *)

\* tier tables a config can give: the default one, a table of two tiers and
\* a table written from the finest tier to the coarsest
LodTables ==
    { DefaultLodLevels,
      << [ zoomThreshold |-> Frac(1, 2), simplifyFactor |-> Frac(1, 2), opacity |-> Frac(1, 2) ],
         [ zoomThreshold |-> Num(2),     simplifyFactor |-> Num(1),     opacity |-> Num(1) ] >>,
      << [ zoomThreshold |-> Num(1),      simplifyFactor |-> Num(1),      opacity |-> Num(1) ],
         [ zoomThreshold |-> Frac(3, 10), simplifyFactor |-> Frac(3, 10), opacity |-> Frac(7, 10) ] >> }

\* the zooms applyLODOptimization is called with
LodZooms ==
    { Frac(1, 20), Frac(1, 10), Frac(1, 5), Frac(3, 10), Frac(1, 2), Frac(3, 5),
      Frac(4, 5), Num(1), Num(2), Num(3) }

ApplyLODOptimization ==
    /\ \E zoom \in LodZooms, objectCount \in 0..MaxObjects :
          lodState' = applyLODOptimization(Optimizer, zoom, objectCount).lodState
    /\ UNCHANGED <<lodLevels, engineVars, managerVars, handlerVars, collaboratorVars>>

NextLod == ApplyLODOptimization

InitLod ==
    /\ InitEngine
    /\ InitManager(DefaultViewportConfig)
    /\ \E levels \in LodTables : InitOptimizer(levels)
    /\ received = Discarded
    /\ InitCollaborators

\* the calls of applyLODOptimization on tier tables of a config
SpecLod == InitLod /\ [][NextLod]_vars

----------------------------------------------------------------------------
(* C1 *)

\* C1: the number of chunk ids in the in-flight set never exceeds
\* maxConcurrentLoads.
C1_ConcurrencyCap == Cardinality(activeLoads) <= config.maxConcurrentLoads

\* every slot is taken by a fetch while chunks still wait in the load queue
C1_Witness ==
    /\ Cardinality(activeLoads) = config.maxConcurrentLoads
    /\ Cardinality(fetches) = config.maxConcurrentLoads
    /\ Len(loadQueue) > 0

----------------------------------------------------------------------------
(* C2 *)

\* C2: a load served from the chunk data cache does not stay in the
\* in-flight set: every id in activeLoads is the id of a fetch that has not
\* settled, so cache hits leave the load slots to real fetches.
C2_CacheHitFreesSlot == activeLoads \subseteq FetchingIds

----------------------------------------------------------------------------
(* C3 *)

\* C3: isRendering returns to false after every render batch: it is true
\* only while a batch waits for its timer, whatever happened to the chunks
\* of earlier batches.
C3_RenderingFlagReset == isRendering => renderTimer # <<>>

----------------------------------------------------------------------------
(* C4 *)

\* C4: an updateViewport removes the record of every chunk that is outside
\* visible ∪ preload of the new viewport, whatever the chunk's status was.
C4_UnwantedRemoved ==
    [][ updates' # updates =>
          \A id \in ChunkIds : id \notin Wanted(viewport') => id \notin ChunkIds' ]_vars

\* a chunk was unloaded while its load was in flight, and a chunk that had
\* been loaded was unloaded too
C4_Witness ==
    /\ \E f \in fetches : f.chunkId \notin ChunkIds /\ f.chunkId \notin Wanted(viewport)
    /\ \E id \in Range(chunkDataCache) : id \notin ChunkIds /\ id \notin activeLoads

----------------------------------------------------------------------------
(* C5 *)

EnqueueIds == { ChunkId(x, 0) : x \in 0..MaxEnqueueId }

EnqueuePriorities ==
    { [ priority |-> 50000,  reason |-> "preload" ],
      [ priority |-> 50000,  reason |-> "user" ],
      [ priority |-> 100000, reason |-> "visible" ] }

EnqueueLoad ==
    /\ \E id \in EnqueueIds, p \in EnqueuePriorities : Becomes(addToLoadQueue(Current, id, p))
    /\ UNCHANGED updates

EnqueueRender ==
    /\ \E id \in EnqueueIds, p \in EnqueuePriorities : Becomes(addToRenderQueue(Current, id, p))
    /\ UNCHANGED updates

NextEnqueue ==
    \/ EnqueueLoad
    \/ EnqueueRender

\* addToLoadQueue and addToRenderQueue applied to ids and priorities drawn
\* from EnqueueIds and EnqueuePriorities
SpecEnqueue == Init /\ [][NextEnqueue]_vars

EntriesOf(q, chunkId) == { i \in 1..Len(q) : q[i].chunkId = chunkId }

\* re-enqueuing chunkId with priority p turned queue q into r
ReenqueueOk(q, r, chunkId, p) ==
    LET old == q[FindIndex(q, chunkId)].priority
    IN  /\ Len(r) = Len(q)
        /\ Cardinality(EntriesOf(r, chunkId)) = 1
        /\ p.priority > old.priority => r[FindIndex(r, chunkId)].priority = p
        /\ p.priority <= old.priority => r = q

\* C5: re-enqueuing a chunk id that is pending in the load queue or in the
\* render queue keeps the queue's length and the single entry of the id; the
\* stored priority is replaced only by a strictly higher one, and otherwise
\* the queue is unchanged.
C5_NoDuplicateWork ==
    \A p \in EnqueuePriorities :
        /\ \A id \in QueuedIds(loadQueue) :
              ReenqueueOk(loadQueue, addToLoadQueue(Current, id, p).loadQueue, id, p)
        /\ \A id \in QueuedIds(renderQueue) :
              ReenqueueOk(renderQueue, addToRenderQueue(Current, id, p).renderQueue, id, p)

\* both queues hold every id, the load queue with different priorities (so a
\* re-enqueue with the higher one moves an entry)
C5_Witness ==
    /\ QueuedIds(loadQueue) = EnqueueIds
    /\ QueuedIds(renderQueue) = EnqueueIds
    /\ loadQueue[1].priority.priority > loadQueue[Len(loadQueue)].priority.priority

----------------------------------------------------------------------------
(* C6 *)

\* the grid cells whose world rectangle [cx*chunkSize, (cx+1)*chunkSize) x
\* [cy*chunkSize, (cy+1)*chunkSize) overlaps the rectangle of the bounds
OverlappingCells(bounds) ==
    LET chunkSize == config.chunkSize
        xs == (FloorDiv(bounds.minX, chunkSize) - 1)..(CeilDiv(bounds.maxX, chunkSize) + 1)
        ys == (FloorDiv(bounds.minY, chunkSize) - 1)..(CeilDiv(bounds.maxY, chunkSize) + 1)
    IN  { ChunkId(cx, cy) : cx \in { x \in xs : x * chunkSize < bounds.maxX
                                                 /\ (x + 1) * chunkSize > bounds.minX },
                            cy \in { y \in ys : y * chunkSize < bounds.maxY
                                                 /\ (y + 1) * chunkSize > bounds.minY } }

ExampleViewport ==
    [ visibleBounds |-> [ minX |-> 0, minY |-> 0, maxX |-> 4000, maxY |-> 4000 ] ]

\* C6: getVisibleChunkIds returns exactly the ids of the grid cells that
\* overlap visibleBounds; for the bounds 0..4000 x 0..4000 and chunkSize 2000
\* these are 0_0, 0_1, 1_0 and 1_1.
C6_VisibleSetExact ==
    updates > 0 =>
        /\ Range(getVisibleChunkIds(viewport)) = OverlappingCells(viewport.visibleBounds)
        /\ config.chunkSize = 2000 =>
              Range(getVisibleChunkIds(ExampleViewport)) =
                  { ChunkId(0, 0), ChunkId(0, 1), ChunkId(1, 0), ChunkId(1, 1) }

----------------------------------------------------------------------------
(* C7 *)

\* what the settling of fetch f (resolved, or rejected where the provider
\* can fail) makes of the current state
Settlements(f) ==
    { loadChunkResolved(Current, f) } \cup
    ( IF CanFail(f.chunkId) THEN { loadChunkRejected(Current, f) } ELSE {} )

\* C7: when a fetch settles for a chunk that has been unloaded, no record is
\* created for the chunk, it is not put in the render queue and no
\* chunk-loaded event is emitted; the load holds its slot until then and
\* releases it then.
C7_LateResultDiscarded ==
    \A f \in fetches :
        f.chunkId \notin ChunkIds =>
            /\ f.chunkId \in activeLoads
            /\ \A r \in Settlements(f) :
                  /\ ~HasChunk(r, f.chunkId)
                  /\ f.chunkId \notin QueuedIds(r.renderQueue)
                  /\ <<"chunk-loaded", f.chunkId>> \notin r.emitted
                  /\ f.chunkId \notin r.activeLoads

\* the load of an unloaded chunk is still in flight while the chunk is wanted
\* again
C7_Witness ==
    \E f \in fetches :
        /\ f.chunkId \notin ChunkIds
        /\ f.chunkId \in Wanted(viewport)

----------------------------------------------------------------------------
(* C8 *)

\* the number of retries recorded on a chunk (none recorded: 0)
RetriesOf(retryCount) == IF retryCount = Undefined THEN 0 ELSE retryCount

\* C8: with retryOnFail, a failed fetch of a chunk whose retry count is
\* below maxRetries puts the chunk back in the load queue with the same
\* priority and the retry count incremented.
C8_FailedLoadRetried ==
    \A f \in fetches :
        ( /\ loadStrategy.retryOnFail
          /\ CanFail(f.chunkId)
          /\ f.chunkId \in ChunkIds
          /\ RetriesOf(f.retryCount) < loadStrategy.maxRetries ) =>
            LET r == loadChunkRejected(Current, f)
            IN  /\ \E i \in 1..Len(r.loadQueue) :
                      /\ r.loadQueue[i].chunkId = f.chunkId
                      /\ r.loadQueue[i].priority = f.priority
                /\ HasChunk(r, f.chunkId)
                /\ RetriesOf(GetChunk(r, f.chunkId).retryCount) = RetriesOf(f.retryCount) + 1

----------------------------------------------------------------------------
(* C9 *)

\* the chunk's load has failed for good: unloaded, in no queue, not in flight
FailedForGood(chunkId) ==
    /\ chunkId \in ChunkIds
    /\ StatusOf(chunkId) = UNLOADED
    /\ chunkId \notin QueuedIds(loadQueue) \cup QueuedIds(renderQueue)
    /\ chunkId \notin activeLoads

\* C9: an updateViewport in which a chunk that failed for good is wanted
\* enqueues the chunk for loading again (the load may start in the same call).
C9_FailedChunkRequeued ==
    \A k \in PanPositions : \A id \in ChunkIds :
        (FailedForGood(id) /\ id \in Wanted(ViewportAt(k))) =>
            LET r == updateViewport(Current, ViewportAt(k))
            IN  id \in QueuedIds(r.loadQueue) \cup r.activeLoads

----------------------------------------------------------------------------
(* C10 *)

\* the objects of a payload that can be materialized
MaterializableOf(data) == SelectSeq(data, Materializable)

----------------------------------------------------------------------------
(* C11 *)

\* the payloads a step removes from the chunk data cache, and those it keeps
EvictedAt(i) == chunkDataCache[i] \notin Range(chunkDataCache')
KeptAt(j) == chunkDataCache[j] \in Range(chunkDataCache')

\* C11: whenever payloads are evicted from the chunk data cache, every
\* evicted payload was last accessed no later than every payload that is
\* kept (with cacheSize 2 and payloads A, B, C: A when A was not accessed
\* again, B when A was accessed after B was stored).
C11_EvictsOldestAccess ==
    [][ \A i, j \in 1..Len(chunkDataCache) :
            (EvictedAt(i) /\ KeptAt(j)) => cacheAccess[i] <= cacheAccess[j] ]_vars

----------------------------------------------------------------------------
(* C20 *)

\* C20: the chunk data cache never holds more than cacheSize payloads.
C20_CacheBounded == Len(chunkDataCache) <= config.cacheSize

----------------------------------------------------------------------------
(* C12 *)

\* the world point under screen point point is the same in managers v and r
AnchorKept(v, r, point) == screenToWorld(r, point) = screenToWorld(v, point)

\* the manager after the frame at the end of its running animation
AnimationEnded(v) == animationFrame(v, Num(1))

\* zoomToPoint as it is without boundary constraints
Unconstrained(v) == [ v EXCEPT !.config.constraints.enabled = FALSE ]

\* the boundary constraints move the viewport an immediate zoom has produced
Clamped(v, point, deltaZoom) ==
    zoomToPoint(v, point, deltaZoom, FALSE).worldGroup
        # zoomToPoint(Unconstrained(v), point, deltaZoom, FALSE).worldGroup

----------------------------------------------------------------------------
(* C13 *)

\* C13: in every reachable state of ViewportManager the viewport's zoom is
\* within [minZoom, maxZoom].
C13_ZoomWithinLimits ==
    /\ ~Less(vmViewport.zoom, vmConfig.minZoom)
    /\ ~Less(vmConfig.maxZoom, vmViewport.zoom)

----------------------------------------------------------------------------
(* C14 *)

\* the axis-aligned world rectangle that the screen of viewport vp shows:
\* the world points under the corners (0, 0) and (screenWidth, screenHeight)
VisibleRectangle(vp) ==
    LET left   == Over(Minus(Num(0), vp.screenX), vp.zoom)
        right  == Over(Minus(vp.screenWidth, vp.screenX), vp.zoom)
        top    == Over(Minus(Num(0), vp.screenY), vp.zoom)
        bottom == Over(Minus(vp.screenHeight, vp.screenY), vp.zoom)
    IN  [ minX |-> MathMin({ left, right }), minY |-> MathMin({ top, bottom }),
          maxX |-> MathMax({ left, right }), maxY |-> MathMax({ top, bottom }) ]

\* C14: after every operation that changes the viewport (a pan, a zoom,
\* setViewport, an animation frame, a constraint clamp, a resize)
\* viewport.visibleBounds is the world rectangle given by the current screen
\* offset, zoom and screen size.
C14_VisibleBoundsCurrent ==
    [][ (vmViewport' # vmViewport /\ vmConfig' = vmConfig)
            => vmViewport'.visibleBounds = VisibleRectangle(vmViewport') ]_vars

----------------------------------------------------------------------------
(* C15 *)

\* the viewport-change notifications operation result r has handed out
ViewportChanges(r) == SelectSeq(r.events, LAMBDA e : e.type = "viewport-change")

\* the operation that took manager v to r changed the viewport and handed out
\* one viewport-change notification, with the viewport it leaves and a source
OneNotification(v, r) ==
    r.viewport # v.viewport =>
        /\ Len(ViewportChanges(r)) = 1
        /\ ViewportChanges(r)[1].viewport = r.viewport
        /\ ViewportChanges(r)[1].source \in { "user", "programmatic" }

\* C15: each of panBy, panTo, zoomToPoint and fitToBounds, applied
\* immediately (animate = false), delivers exactly one viewport-change
\* notification, which carries the viewport as it is when the operation
\* returns and a source tag.
C15_OneNotification ==
    operations < MaxOperations =>
    \A due \in BOOLEAN :
        LET v == Manager(due)
        IN  /\ \A d \in PanDeltas : OneNotification(v, panBy(v, d.x, d.y, FALSE))
            /\ \A w \in PanTargets : OneNotification(v, panTo(v, w.x, w.y, FALSE))
            /\ \A point \in ScreenPoints, deltaZoom \in DeltaZooms :
                  OneNotification(v, zoomToPoint(v, point, deltaZoom, FALSE))
            /\ \A bounds \in FitBounds :
                  OneNotification(v, fitToBounds(v, bounds, FitPadding, FALSE))

----------------------------------------------------------------------------
(* C17 *)

\* the simplifyFactor of the tier the optimizer selects for a zoom
SelectedFactor(zoom) ==
    lodLevels[getLODLevelForZoom(Optimizer, zoom) + 1].simplifyFactor

\* C17: for a fixed tier table, the simplifyFactor of the tier selected for a
\* zoom z1 is never greater than that of the tier selected for a zoom
\* z2 > z1.
C17_LodMonotone ==
    \A z1, z2 \in LodZooms :
        Less(z1, z2) => ~Less(SelectedFactor(z2), SelectedFactor(z1))

----------------------------------------------------------------------------
(* C19 *)

\* the index of the tier of table levels that a zoom asks for: the tier with
\* the largest zoomThreshold <= zoom, the tier with the smallest
\* zoomThreshold when zoom is below every threshold
TierFor(levels, zoom) ==
    LET below  == { i \in 1..Len(levels) : ~Less(zoom, levels[i].zoomThreshold) }
        lowest == CHOOSE i \in 1..Len(levels) :
                      \A j \in 1..Len(levels) :
                          ~Less(levels[j].zoomThreshold, levels[i].zoomThreshold)
    IN  IF below = {} THEN lowest - 1
        ELSE (CHOOSE i \in below :
                  \A j \in below :
                      ~Less(levels[i].zoomThreshold, levels[j].zoomThreshold)) - 1

\* C19: for an ordered tier table and any zoom, the tier applyLODOptimization
\* selects is the one with the largest zoomThreshold <= zoom, and the lowest
\* tier when zoom is below every threshold.
C19_TierSelected ==
    [][ lodState'.currentLevel = TierFor(lodLevels, lodState'.zoom) ]_vars

----------------------------------------------------------------------------
(* C18 *)

\* a viewport configuration with minZoom > maxZoom
InvertedZoomConfig ==
    [ DefaultViewportConfig EXCEPT !.minZoom = Num(2), !.maxZoom = Frac(1, 2) ]

\* a chunk configuration with chunkSize <= 0
NoChunkSizeConfig == [ EngineConfig EXCEPT !.chunkSize = 0 ]

\* new ChunkedCanvas(stage, config) and new ViewportManager(stage, group,
\* config) with valid and with invalid configurations: neither constructor
\* has a throw, each leaves a running instance
InitConstruct ==
    /\ \E configuration \in { EngineConfig, NoChunkSizeConfig } :
          InitEngineWith(configuration)
    /\ \E configuration \in { DefaultViewportConfig, InvertedZoomConfig } :
          InitManager(configuration)
    /\ InitOptimizer(DefaultLodLevels)
    /\ received = Discarded
    /\ InitCollaborators

\* the constructed viewport manager at work
SpecConstruct == InitConstruct /\ [][NextViewport]_vars

\* C18: no ViewportManager runs with minZoom > maxZoom and no ChunkedCanvas
\* runs with chunkSize <= 0: the construction with such a configuration
\* fails.
C18_InvalidConfigRejected ==
    /\ ~Less(vmConfig.maxZoom, vmConfig.minZoom)
    /\ config.chunkSize > 0

----------------------------------------------------------------------------
(* C16 *)

\* a handler is subscribed to viewport-change that keeps the last payload it
\* was called with
InitSnapshot ==
    /\ InitEngine
    /\ \E configuration \in { DefaultViewportConfig, ConstrainedViewportConfig } :
          InitManager(configuration)
    /\ InitOptimizer(DefaultLodLevels)
    /\ received = Null
    /\ InitCollaborators

\* the viewport's operations, seen by a handler that keeps its payload
SpecSnapshot == InitSnapshot /\ [][NextViewport]_vars

----------------------------------------------------------------------------
(* C21 *)

\* the chunks that wait to be rendered: entries of the render queue and of the
\* batch handed to the pending render timeout
AwaitingRender == QueuedIds(renderQueue) \cup QueuedIds(renderTimer)

\* C21: a step never removes from the chunk data cache the payload of a chunk
\* that has a record in the registry (a record the step keeps: one that is
\* there before and after it), so every chunk in status loaded that waits to
\* be rendered still has its payload in the cache.
C21_ResidentPayloadKept ==
    [][ /\ \A i \in 1..Len(chunkDataCache) :
              EvictedAt(i) => chunkDataCache[i] \notin (ChunkIds \cap ChunkIds')
        /\ \A id \in AwaitingRender' :
              (id \in ChunkIds' /\ StatusOf(id)' = LOADED)
                  => id \in Range(chunkDataCache') ]_vars

----------------------------------------------------------------------------
(* State machine of the chunk priority *)

\* the widest viewport, in chunks
MaxChunksWide == 16

\* the constructor's defaults (preloadRadius 2) on a grid of small chunks, with
\* each of the two load priorities
PriorityConfigs ==
    { [ DefaultConfig EXCEPT !.chunkSize = 100, !.loadPriority = p ] :
          p \in { "center", "closest" } }

\* viewports one to MaxChunksWide chunks wide and half a chunk high
PriorityViewports ==
    { [ visibleBounds |-> [ minX |-> 0, minY |-> 0,
                            maxX |-> w * 100, maxY |-> 50 ] ] : w \in 1..MaxChunksWide }

InitPriority ==
    /\ chunks         = <<>>
    /\ chunkLayers    = {}
    /\ chunkDataCache = <<>>
    /\ cacheAccess    = <<>>
    /\ loadQueue      = <<>>
    /\ activeLoads    = {}
    /\ renderQueue    = <<>>
    /\ isRendering    = FALSE
    /\ renderTimer    = <<>>
    /\ fetches        = {}
    /\ config         \in PriorityConfigs
    /\ viewport       \in PriorityViewports
    /\ updates        = 0
    /\ stats          = InitialStats
    /\ calculated     = Null
    /\ InitManager(DefaultViewportConfig)
    /\ InitOptimizer(DefaultLodLevels)
    /\ received = Discarded
    /\ InitCollaborators

\* calculateChunkPriority(chunkId, viewport) for a visible or preload chunk of
\* the viewport
CalculateChunkPriority ==
    /\ \E chunkId \in Wanted(viewport) :
          calculated' = [ chunkId  |-> chunkId,
                          priority |-> calculateChunkPriority(chunkId, viewport) ]
    /\ UNCHANGED <<chunks, chunkLayers, chunkDataCache, cacheAccess, loadQueue,
                   activeLoads, renderQueue, isRendering, renderTimer, fetches,
                   config, viewport, updates, stats, managerVars, optimizerVars, handlerVars,
                   collaboratorVars>>

NextPriority == CalculateChunkPriority

SpecPriority == InitPriority /\ [][NextPriority]_vars

\* the preload chunks of the current viewport
PreloadIds == Range(getPreloadChunkIds(viewport, getVisibleChunkIds(viewport)))

----------------------------------------------------------------------------
(* C22 *)

\* C22: the priority calculateChunkPriority gives a visible chunk of a viewport
\* is strictly higher than the priority it gives every preload chunk of that
\* viewport.
C22_VisibleAbovePreload ==
    (calculated # Null /\ calculated.priority.reason = "visible")
        => \A id \in PreloadIds :
              calculated.priority.priority
                  > calculateChunkPriority(id, viewport).priority

----------------------------------------------------------------------------
(* C23 *)

\* C23: a preload chunk whose distance from the viewport center is at least
\* preloadRadius * chunkSize has priority zero, and no preload chunk of the
\* same viewport that is farther from the center has a higher priority.
C23_PreloadByDistance ==
    (calculated # Null /\ calculated.priority.reason = "preload")
        => /\ ChunkDistance(calculated.chunkId, viewport)
                  >= loadStrategy.preloadRadius * config.chunkSize
              => calculated.priority.priority = 0
           /\ \A id \in PreloadIds :
                 ChunkDistance(id, viewport) > ChunkDistance(calculated.chunkId, viewport)
                     => calculateChunkPriority(id, viewport).priority
                            <= calculated.priority.priority

----------------------------------------------------------------------------
(* C24 *)

\* the status changes of the lifecycle
Lifecycle ==
    { <<UNLOADED, LOADING>>, <<LOADING, LOADED>>, <<LOADED, RENDERING>>,
      <<RENDERING, RENDERED>>, <<LOADED, UNLOADING>>, <<RENDERED, UNLOADING>>,
      <<LOADING, UNLOADED>> }

\* the statuses a record can reach from those of S by changes of the lifecycle
RECURSIVE Follow(_)
Follow(S) ==
    LET T == S \cup { p[2] : p \in { q \in Lifecycle : q[1] \in S } }
    IN  IF T = S THEN S ELSE Follow(T)

\* C24: every status change of a chunk record follows the lifecycle: over a
\* step, a record that stays has a status the lifecycle reaches from its
\* former status, and a record that is removed (unloadChunks, which runs
\* before anything else in updateViewport) was in a status the lifecycle
\* lets change to unloading, that is loaded or rendered.
C24_LifecycleFollowed ==
    [][ \A id \in ChunkIds :
            IF id \in ChunkIds'
            THEN StatusOf(id)' \in Follow({ StatusOf(id) })
            ELSE <<StatusOf(id), UNLOADING>> \in Lifecycle ]_vars

----------------------------------------------------------------------------
(* C25 *)

\* C25: a step that hands a batch to the render timeout takes at most
\* frameBudget entries from the render queue; while a batch is pending no
\* other batch is taken; and when the batch runs, every chunk of it that is
\* in status loaded is in status rendered afterwards.
C25_RenderBatch ==
    [][ /\ Len(renderTimer') <= frameBudget
        /\ (renderTimer # <<>> /\ renderTimer' # <<>>) => renderTimer' = renderTimer
        /\ (renderTimer # <<>> /\ renderTimer' = <<>>)
              => \A id \in QueuedIds(renderTimer) :
                    (id \in ChunkIds /\ StatusOf(id) = LOADED)
                        => (id \in ChunkIds' /\ StatusOf(id)' = RENDERED) ]_vars

----------------------------------------------------------------------------
(* C26 *)

\* the chunks that have a render layer
LayerIds == { layer.chunkId : layer \in chunkLayers }

\* C26: after an updateViewport(v) no chunk record exists for an id outside
\* visible(v) ∪ preload(v); a chunk it has unloaded has no render layer and
\* no entry in the load queue or the render queue; and a cached payload is
\* removed only by the cache policy, that is only when the cache held more
\* than cacheSize payloads, and never below cacheSize payloads.
C26_UnloadedGone ==
    [][ updates' # updates =>
          /\ ChunkIds' \subseteq Wanted(viewport')
          /\ \A id \in ChunkIds \ ChunkIds' :
                /\ id \notin LayerIds'
                /\ id \notin QueuedIds(loadQueue')
                /\ id \notin QueuedIds(renderQueue')
                /\ (id \in Range(chunkDataCache) /\ id \notin Range(chunkDataCache'))
                      => Len(chunkDataCache) > config.cacheSize
          /\ Len(chunkDataCache') >= Min2(Len(chunkDataCache), config.cacheSize) ]_vars

\* an updateViewport has unloaded a chunk that had been loaded: its payload is
\* still cached, and a chunk that stays is waiting to be rendered
C26_Witness ==
    /\ updates >= 2
    /\ \E id \in Range(chunkDataCache) : id \notin ChunkIds /\ id \notin Wanted(viewport)
    /\ renderQueue # <<>>

----------------------------------------------------------------------------
(* C27 *)

\* C27: after an updateViewport(v) every chunk id in visible(v) ∪ preload(v)
\* has a chunk record, and a record created by the call is in status unloaded
\* in the load queue unless the load loop run by the call has started it.
C27_WantedTracked ==
    [][ updates' # updates =>
          \A id \in Wanted(viewport') :
              /\ id \in ChunkIds'
              /\ (id \notin ChunkIds /\ StatusOf(id)' = UNLOADED)
                    => id \in QueuedIds(loadQueue') ]_vars

----------------------------------------------------------------------------
(* C28 *)

\* C28: a chunk that has been loaded successfully, is unloaded by an
\* updateViewport that leaves its payload in the cache, and is requested again
\* by the next updateViewport has a record again; no fetch is issued for it,
\* and it is either in status loaded with an entry in the render queue (or in
\* the batch just taken from it) or still in status unloaded in the load
\* queue, waiting for a free load slot.
C28_ReloadFromCache ==
    \A id \in ChunkIds, k1, k2 \in PanPositions :
        LET unloaded == updateViewport(Current, ViewportAt(k1))
            again    == updateViewport(unloaded, ViewportAt(k2))
        IN  ( /\ StatusOf(id) \in { LOADED, RENDERED }
              /\ ~HasChunk(unloaded, id)
              /\ id \in Range(unloaded.chunkDataCache)
              /\ id \in Wanted(ViewportAt(k2)) )
            => /\ id \notin { f.chunkId : f \in again.fetches \ unloaded.fetches }
               /\ HasChunk(again, id)
               /\ \/ /\ GetChunk(again, id).status = LOADED
                     /\ id \in QueuedIds(again.renderQueue) \cup QueuedIds(again.renderTimer)
                  \/ /\ GetChunk(again, id).status = UNLOADED
                     /\ id \in QueuedIds(again.loadQueue)

----------------------------------------------------------------------------
(* C29 *)

\* q is ordered by non-increasing priority
Ordered(q) ==
    \A i \in 1..(Len(q) - 1) : q[i].priority.priority >= q[i + 1].priority.priority

\* the load loop, run now, starts no entry of the load queue that has a lower
\* priority than an entry it leaves pending
HighestFirst ==
    LET left    == processLoadQueue(Current).loadQueue
        started == { i \in 1..Len(loadQueue) : loadQueue[i].chunkId \notin QueuedIds(left) }
        pending == { i \in 1..Len(loadQueue) : loadQueue[i].chunkId \in QueuedIds(left) }
    IN  \A i \in started, j \in pending :
            loadQueue[i].priority.priority >= loadQueue[j].priority.priority

\* C29: the load queue and the render queue are ordered by non-increasing
\* priority, they still are after addToLoadQueue or addToRenderQueue has
\* pushed an entry or raised the priority of one, and the load loop starts the
\* pending chunks of highest priority.
C29_QueuesOrdered ==
    /\ Ordered(loadQueue)
    /\ Ordered(renderQueue)
    /\ \A id \in ChunkIds \cup EnqueueIds, p \in EnqueuePriorities :
          /\ Ordered(addToLoadQueue(Current, id, p).loadQueue)
          /\ Ordered(addToRenderQueue(Current, id, p).renderQueue)
    /\ HighestFirst

\* both queues hold entries of different priorities, and the load queue holds
\* more entries than there are free load slots
C29_Witness ==
    /\ Len(loadQueue) >= 2
    /\ loadQueue[1].priority.priority > loadQueue[Len(loadQueue)].priority.priority
    /\ Len(renderQueue) >= 2
    /\ renderQueue[1].priority.priority > renderQueue[Len(renderQueue)].priority.priority
    /\ Cardinality(activeLoads) < config.maxConcurrentLoads
    /\ Len(loadQueue) > config.maxConcurrentLoads - Cardinality(activeLoads)

----------------------------------------------------------------------------
(* C30 *)

\* lo <= x <= hi for numbers
Within(x, lo, hi) == x # NaN /\ ~Less(x, lo) /\ ~Less(hi, x)

\* C30: with constraints enabled, in every state a viewport mutation leaves,
\* worldX is within [minX, maxX], worldY is within [minY, maxY], and the
\* screen offset is -world offset * zoom.
C30_WithinConstraints ==
    vmConfig.constraints.enabled
        => /\ Within(vmViewport.worldX, vmConfig.constraints.minX, vmConfig.constraints.maxX)
           /\ Within(vmViewport.worldY, vmConfig.constraints.minY, vmConfig.constraints.maxY)
           /\ vmViewport.screenX = Neg(Times(vmViewport.worldX, vmViewport.zoom))
           /\ vmViewport.screenY = Neg(Times(vmViewport.worldY, vmViewport.zoom))

----------------------------------------------------------------------------
(* State machine of InfiniteCanvas *)

\* at most MaxChunkObjects chunk objects are created
MaxChunkObjects == 4

\* how far the world group is dragged, in chunk sizes
CanvasPositions == { 0, 1, 2 }

CanvasBecomes(c) ==
    /\ icChunks'      = c.chunks
    /\ icChunkLayers' = c.chunkLayers
    /\ icRenderQueue' = c.renderQueue
    /\ icIsRendering' = c.isRendering
    /\ icLoads'       = c.loads
    /\ icViewport'    = c.viewport
    /\ icCreated'     = c.created
    /\ UNCHANGED <<engineVars, managerVars, optimizerVars, handlerVars, undoRedoVars,
                   hybridVars>>

\* the dragmove handler of the world group (updateViewportFromWorldGroup,
\* then updateVisibleChunks)
DragMove ==
    \E k \in CanvasPositions :
        LET c == updateVisibleChunks(Canvas, CanvasViewportAt(k))
        IN  c.created <= MaxChunkObjects /\ CanvasBecomes(c)

LoadChunkDataResolved ==
    \E chunk \in icLoads : CanvasBecomes(canvasLoadResolved(Canvas, chunk))

RenderNextFrame ==
    /\ icIsRendering
    /\ CanvasBecomes(renderNext(Canvas))

NextCanvas ==
    \/ DragMove
    \/ LoadChunkDataResolved
    \/ RenderNextFrame

SpecCanvas == Init /\ [][NextCanvas]_vars

----------------------------------------------------------------------------
(* C31 *)

CountedLoaded == { LOADING, LOADED, RENDERING, RENDERED }

(* C32: getStats().totalChunks equals the number of chunk records in the   *)
(* registry after any sequence of viewport updates, loads and unloads.     *)
C32_TotalChunksIsRecordCount ==
    stats.totalChunks = Cardinality(ChunkIds)

(* C33: getStats().loadedChunks is never negative and equals the number of *)
(* chunk records whose status is loading, loaded, rendering or rendered.   *)
C33_LoadedChunksIsCount ==
    /\ stats.loadedChunks >= 0
    /\ stats.loadedChunks =
         Cardinality({ i \in 1..Len(chunks) : chunks[i].status \in CountedLoaded })

(* C35: in every reachable state of ChunkedCanvas every chunk id in the    *)
(* load queue or the render queue has a chunk record in the registry, and  *)
(* no chunk id is in the load queue and in the in-flight set at once.      *)
C35_QueuedIdsRegistered ==
    /\ QueuedIds(loadQueue) \subseteq ChunkIds
    /\ QueuedIds(renderQueue) \subseteq ChunkIds
    /\ QueuedIds(loadQueue) \cap activeLoads = {}

\* both queues are in use while an in-flight chunk has lost its record
C35_Witness ==
    /\ loadQueue # <<>>
    /\ renderQueue # <<>>
    /\ activeLoads \ ChunkIds # {}

----------------------------------------------------------------------------
(* Progress of the chunk engine: every fetch succeeds, and the frame       *)
(* callback, pending fetches and the render timeout keep being run         *)
(* (requestAnimationFrame re-arms itself in startQueueProcessing, a        *)
(* promise that settles runs its continuation, a timeout set is delivered) *)

NextProgress ==
    \/ UpdateViewport
    \/ Frame
    \/ FetchResolved
    \/ RenderTimeout

\* the frame callback has something to do: a free load slot and a queued
\* load, or a queued render and no batch under way
FrameDue ==
    \/ Cardinality(activeLoads) < config.maxConcurrentLoads /\ loadQueue # <<>>
    \/ ~isRendering /\ renderQueue # <<>>

\* what FetchResolved and RenderTimeout do to the pending work, whatever
\* else they change: one fetch leaves the pending set, the batch of the timer
\* is delivered. No other action of NextProgress does either.
FetchSettled == \E f \in fetches : fetches' = fetches \ {f}

TimerDelivered == renderTimer # <<>> /\ renderTimer' = <<>>

\* weak fairness of the three scheduled actions; for Frame it is written out
\* ([]<>~ENABLED <<Frame>>_vars \/ []<><<Frame>>_vars with FrameDue for ENABLED)
SpecProgress ==
    /\ Init
    /\ [][NextProgress]_vars
    /\ WF_fetches(FetchSettled)
    /\ WF_renderTimer(TimerDelivered)
    /\ ([]<>~FrameDue \/ []<><<Frame>>_vars)

\* every chunk of visible ∪ preload of the current viewport is rendered
WantedRendered ==
    \A id \in Wanted(viewport) : id \in ChunkIds /\ StatusOf(id) = RENDERED

(* C34: if every fetch eventually succeeds and scheduling ticks keep       *)
(* occurring, every chunk that stays in visible ∪ preload from some        *)
(* updateViewport onward eventually reaches status rendered.               *)
C34_WantedEventuallyRendered ==
    <>[](updates > 0 => WantedRendered)

----------------------------------------------------------------------------
(* C36 *)

\* the event types the frame that completes the running animation emits
CompletionEvents ==
    LET v == animationFrame(Manager(FALSE), Num(1))
    IN  { v.events[i].type : i \in 1..Len(v.events) }

(* C36: every pan-start or zoom-start event emitted when an animation      *)
(* starts is followed by the matching pan-end or zoom-end event once that  *)
(* animation runs to completion: the frame that completes the running      *)
(* animation emits the end event of each start event its type stands for.  *)
C36_EndEventFollows ==
    vmAnimation # Null =>
        /\ vmAnimation.type \in { "pan", "both" }  => "pan-end" \in CompletionEvents
        /\ vmAnimation.type \in { "zoom", "both" } => "zoom-end" \in CompletionEvents

----------------------------------------------------------------------------
(* C37 *)

\* worldX = 0, worldY = 0 and zoom = defaultZoom
AtInitialView(v) ==
    /\ v.viewport.worldX = Num(0)
    /\ v.viewport.worldY = Num(0)
    /\ v.viewport.zoom = v.config.defaultZoom

(* C37: resetView restores the initial viewport: from any viewport state,  *)
(* after resetView(false) returns, and after the animation started by      *)
(* resetView(true) has completed, worldX = 0, worldY = 0 and               *)
(* zoom = defaultZoom.                                                     *)
C37_ResetViewRestores ==
    /\ AtInitialView(resetView(Manager(FALSE), FALSE))
    /\ AtInitialView(animationFrame(resetView(Manager(FALSE), TRUE), Num(1)))

----------------------------------------------------------------------------
(* State machine of UndoRedoManager *)

\* recordOperation is called at most MaxRecorded times
MaxRecorded == 3

\* at most MaxSuspended undo() and redo() calls are suspended at a time
MaxSuspended == 2

\* the operations recorded: object a is created, deleted, or moved between
\* two positions, and object b is created
RecordedOperations ==
    { [ type |-> "create-object", target |-> "a", position |-> {},  previous |-> {} ],
      [ type |-> "delete-object", target |-> "a", position |-> {},  previous |-> {} ],
      [ type |-> "move-object",   target |-> "a", position |-> {1}, previous |-> {0} ],
      [ type |-> "move-object",   target |-> "a", position |-> {0}, previous |-> {1} ],
      [ type |-> "create-object", target |-> "b", position |-> {},  previous |-> {} ] }

\* the milliseconds that pass before an operation is recorded: within every
\* grouping window, or beyond them
Elapsed == { 100, 1000 }

UndoRedo ==
    [ history      |-> history,
      currentIndex |-> currentIndex,
      calls        |-> undoRedoCalls,
      created      |-> operationIds,
      now          |-> clock ]

UndoRedoBecomes(u) ==
    /\ history'       = u.history
    /\ currentIndex'  = u.currentIndex
    /\ undoRedoCalls' = u.calls
    /\ operationIds'  = u.created
    /\ clock'         = u.now
    /\ UNCHANGED <<engineVars, managerVars, optimizerVars, handlerVars, canvasVars,
                   hybridVars>>

RecordOperation ==
    /\ operationIds < MaxRecorded
    /\ \E op \in RecordedOperations, elapsed \in Elapsed :
          UndoRedoBecomes(recordOperation([ UndoRedo EXCEPT !.now = @ + elapsed ],
                                          op.type, op.target, op.position, op.previous))

Undo ==
    /\ Len(undoRedoCalls) < MaxSuspended
    /\ UndoRedoBecomes(undo(UndoRedo))

Redo ==
    /\ Len(undoRedoCalls) < MaxSuspended
    /\ UndoRedoBecomes(redo(UndoRedo))

\* the continuation of the suspended call whose awaits are through first
UndoRedoResumed ==
    /\ undoRedoCalls # <<>>
    /\ LET n == NextCall(UndoRedo)
       IN  IF undoRedoCalls[n].kind = "undo"
           THEN UndoRedoBecomes(undoResumed(UndoRedo, n))
           ELSE UndoRedoBecomes(redoResumed(UndoRedo, n))

NextUndoRedo ==
    \/ RecordOperation
    \/ Undo
    \/ Redo
    \/ UndoRedoResumed

SpecUndoRedo == Init /\ [][NextUndoRedo]_vars

----------------------------------------------------------------------------
(* C38 *)

\* the records that suspended undo() calls are reverting
Reverting == { n \in 1..Len(undoRedoCalls) : undoRedoCalls[n].kind = "undo" }

(* C38: in UndoRedoManager -1 <= currentIndex <= history.length - 1 holds  *)
(* in every reachable state, and each undo reverts a distinct history      *)
(* record, also when undo() or redo() is called again before the previous  *)
(* call's promise has resolved.                                            *)
C38_IndexInRangeUndoDistinct ==
    /\ -1 <= currentIndex
    /\ currentIndex <= Len(history) - 1
    /\ \A n, m \in Reverting :
          n # m => undoRedoCalls[n].record # undoRedoCalls[m].record

----------------------------------------------------------------------------
(* C39 *)

(* C39: in UndoRedoManager recording a new operation after one or more     *)
(* undos discards the undone records: right after recordOperation returns, *)
(* canRedo() is false and no record lies after currentIndex, also when the *)
(* new operation is merged with the record at currentIndex by a grouping   *)
(* rule.                                                                   *)
C39_RecordDiscardsUndone ==
    [][ operationIds' # operationIds =>
          /\ ~canRedo(UndoRedo')
          /\ Len(history') <= currentIndex' + 1 ]_vars

----------------------------------------------------------------------------
(* State machine of HybridDataSource *)

\* at most MaxLocalOperations objects are created, updated or deleted
MaxLocalOperations == 4

SyncOperationTypes == { "create", "update", "delete" }

Hybrid ==
    [ syncQueue |-> syncQueue,
      isSyncing |-> isSyncing,
      passes    |-> syncPasses,
      sent      |-> remoteSent,
      created   |-> localOperations ]

HybridBecomes(d) ==
    /\ syncQueue'       = d.syncQueue
    /\ isSyncing'       = d.isSyncing
    /\ syncPasses'      = d.passes
    /\ remoteSent'      = d.sent
    /\ localOperations' = d.created
    /\ UNCHANGED <<engineVars, managerVars, optimizerVars, handlerVars, canvasVars,
                   undoRedoVars>>

\* createObject, updateObject or deleteObject is called and its local part
\* succeeds
LocalOperation ==
    /\ localOperations < MaxLocalOperations
    /\ \E type \in SyncOperationTypes : HybridBecomes(localOperation(Hybrid, type))

\* the remote call a sync pass is waiting for succeeds
RemoteResolved ==
    \E n \in 1..Len(syncPasses) : HybridBecomes(remoteSettled(Hybrid, n, TRUE))

\* the remote call a sync pass is waiting for fails
RemoteRejected ==
    \E n \in 1..Len(syncPasses) : HybridBecomes(remoteSettled(Hybrid, n, FALSE))

NextHybrid ==
    \/ LocalOperation
    \/ RemoteResolved
    \/ RemoteRejected

SpecHybrid == Init /\ [][NextHybrid]_vars

\* every remote call succeeds, and a remote call that is under way settles
NextSync ==
    \/ LocalOperation
    \/ RemoteResolved

SpecSync == Init /\ [][NextSync]_vars /\ WF_hybridVars(RemoteResolved)

----------------------------------------------------------------------------
(* C40 *)

\* the operations a local call can have queued
SyncOperations ==
    { [ id |-> n, type |-> type ] : n \in 1..MaxLocalOperations, type \in SyncOperationTypes }

(* C40: in HybridDataSource with autoSync every operation put on the sync  *)
(* queue is eventually sent to the remote source when remote calls         *)
(* succeed, without a further local operation being needed, also for an    *)
(* operation queued while a sync pass is running; at most one sync pass    *)
(* runs at a time.                                                         *)
C40_QueuedEventuallySent ==
    /\ [](Len(syncPasses) <= 1)
    /\ \A operation \in SyncOperations :
          (operation \in Range(syncQueue)) ~> (operation \in remoteSent)

====
